---- MODULE Spec2Model ----
(***************************************************************************)
(* Usage tree of the cell library (src/src/cell/usage_tree.rs) over the    *)
(* thread-safe cell handle (src/src/cell/cell_impl/sync.rs).               *)
(*                                                                         *)
(* Spec      the single-caller API: every call runs to completion          *)
(* SpecMut   the destructive traversal calls and handle ownership          *)
(* SpecSync  the calls of several threads, interleaved at the mutex, the   *)
(*           one-shot slot and the weak upgrade                            *)
(***************************************************************************)
EXTENDS Integers, Sequences, FiniteSets, TLC

VARIABLES
    profile,    \* "rc" or "sync": the compile-time feature
    mode,       \* UsageTreeState::mode
    tree,       \* the tree handle: "plain", "subtrees" or "dropped"
    visited,    \* UsageTreeState::visited: repr hash -> VisitedCell
    subtrees,   \* UsageTreeWithSubtrees::subtrees
    refs,       \* the references of every plain cell
    held,       \* how many handles the caller holds of every plain cell
    ucells,     \* the usage cells allocated so far: id -> UsageCell
    last,       \* the last completed call and what it returned
    inserts,    \* history: the (hash, ctx) pairs insert was called with
    accessed,   \* history: the (call, hash) pairs the single caller made while
                \* the tree lived
    slotlog,    \* history: per child slot, how often it was written and how
                \* often its child was inserted
    thr,        \* per thread: the call it is in and its locals
    mutex,      \* the owner of the lock of the visited map, 0 when free
    calls,      \* the calls the threads have started
    heap,       \* the cells finalized and the views allocated: handle -> object
    obj,        \* the value or the cell a codec is applied to
    reg         \* the last call on cells or codecs and what it returned

vars == <<profile, mode, tree, visited, subtrees, refs, held, ucells, last,
          inserts, accessed, slotlog, thr, mutex, calls, heap, obj, reg>>

\* what the calls on a usage tree leave alone
purevars == <<heap, obj, reg>>

\* what the calls on cells and codecs leave alone
treevars == <<profile, mode, tree, visited, subtrees, refs, held, ucells, last,
              inserts, accessed, slotlog, thr, mutex, calls>>

\* what the single-caller actions leave alone
syncvars == <<thr, mutex, calls>>

---------------------------------------------------------------------------
(* Bounds *)

\* at most this many usage cells are allocated, by track and by load_reference
MaxUsageCells == 3

\* the threads of the sync profile
NumThreads == 2

\* the threads start at most this many calls
MaxCalls == 3

Threads == 1 .. NumThreads

---------------------------------------------------------------------------
(* The cell graph the caller built: a chain 1 -> 2 -> 3 and a second child *)
(* 4 of the root with the content of 3, a distinct allocation.             *)

Cells == 1 .. 4

InitRefs == << <<2, 4>>, <<3>>, <<>>, <<>> >>

CellData == << "d1", "d2", "d3", "d3" >>

CellBitLen == << 16, 8, 8, 8 >>

\* indices reference(i) is called with on cell c: those of its references, the
\* first absent one when it is below 2, and 4, the first one out of range
Indexes(c) == {i \in {0, 1} : i <= Len(InitRefs[c])} \cup {4}

Slots == 0 .. 3

Levels == 0 .. 3

\* the representation hash: a function of the payload and the children's hashes
RECURSIVE ReprHash(_)
ReprHash(c) ==
    << CellData[c],
       [k \in 1 .. Len(InitRefs[c]) |-> ReprHash(InitRefs[c][k])] >>

Hashes == {ReprHash(c) : c \in Cells}

RECURSIVE CellDepth(_)
CellDepth(c) ==
    IF InitRefs[c] = <<>> THEN 0
    ELSE LET ds == {CellDepth(InitRefs[c][k]) : k \in 1 .. Len(InitRefs[c])}
         IN  1 + CHOOSE d \in ds : \A e \in ds : e <= d

\* every cell of the graph is an ordinary cell of level 0
CellDescriptor(c) == [refs |-> Len(InitRefs[c]), bits |-> CellBitLen[c], level |-> 0]

CellHashAt(c, level) == ReprHash(c)

CellDepthAt(c, level) == CellDepth(c)

\* reference_cloned(index) of a plain cell: 0 stands for None
CellReference(c, index) ==
    IF index < Len(refs[c]) THEN refs[c][index + 1] ELSE 0

---------------------------------------------------------------------------
(* UsageTreeState *)

Modes == {"OnLoad", "OnDataAccess"}

NoEntry == [present |-> FALSE, include |-> FALSE, cell |-> 0]

NoVisited == [h \in Hashes |-> NoEntry]

TreeAlive == tree # "dropped"

\* a back reference that outlives the tree handle
UpgradeAlways == TRUE

\* the state lives while the tree handle or an upgraded reference holds it
StateAlive == TreeAlive \/ \E t \in Threads : thr[t].up

\* Weak::upgrade of the back reference of a usage cell
Upgrade == StateAlive

\* insert that assigns the flag of an entry it finds instead of or-ing it
InsertWithAssign(v, c, ctx, seen) ==
    [v EXCEPT ![ReprHash(c)] =
        [present |-> TRUE, include |-> (mode = ctx),
         cell |-> IF seen.present THEN seen.cell ELSE c]]

\* the body of insert once the map is locked; seen is the entry get_mut found
InsertWith(v, c, ctx, seen) ==
    LET repr_hash == ReprHash(c)
        include   == (mode = ctx)
    IN  IF seen.present
        THEN [v EXCEPT ![repr_hash].include = seen.include \/ include]
        ELSE [v EXCEPT ![repr_hash] =
                 [present |-> TRUE, include |-> include, cell |-> c]]

\* insert into a map that is cleared first
InsertCleared(v, c, ctx) == InsertWith(NoVisited, c, ctx, NoEntry)

Insert(v, c, ctx) == InsertWith(v, c, ctx, v[ReprHash(c)])

ContainsIn(v, repr_hash) ==
    IF v[repr_hash].present THEN v[repr_hash].include ELSE FALSE

Contains(repr_hash) == ContainsIn(visited, repr_hash)

\* wrap: a fresh usage cell with four empty child slots
Wrap(c) == [cell |-> c, children |-> [s \in Slots |-> "empty"]]

---------------------------------------------------------------------------
(* Usage cells.  The k-th usage cell that track made of cell c is <<c, k>>; *)
(* the child in slot i of usage cell u is Append(u, i).                    *)

UIds == DOMAIN ucells

Roots == {u \in UIds : Len(u) = 2}

RootsOf(c) == {u \in Roots : u[1] = c}

CanAllocate == Cardinality(UIds) < MaxUsageCells

Child(u, index) == Append(u, index)

None == << >>

NoCall == [op |-> "none", u |-> None, i |-> 0, ret |-> "none", fresh |-> FALSE]

\* a completed call: the usage cell and index it was made with, what it returned,
\* and whether it allocated a usage cell
Call(op, u, i, ret, fresh) == [op |-> op, u |-> u, i |-> i, ret |-> ret, fresh |-> fresh]

\* a thread that is in no call
Idle == [pc |-> "idle", op |-> "none", u |-> None, i |-> 0, c |-> 0,
         ctx |-> "none", seen |-> NoEntry, up |-> FALSE]

\* the slot (u, index) written once more, with or without an insert of its child
Logged(u, index, inserted) ==
    LET old == IF <<u, index>> \in DOMAIN slotlog THEN slotlog[<<u, index>>]
               ELSE [writes |-> 0, inserts |-> 0]
        new == [writes |-> old.writes + 1,
                inserts |-> old.inserts + (IF inserted THEN 1 ELSE 0)]
    IN  [k \in DOMAIN slotlog \cup {<<u, index>>} |->
            IF k = <<u, index>> THEN new ELSE slotlog[k]]

\* the calls made while the tree lived
Accessed(kind, c) == IF TreeAlive THEN accessed \cup {<<kind, ReprHash(c)>>} ELSE accessed

\* no call on cells or codecs yet
NoReg == [op |-> "none"]

\* a fresh usage tree over the graph, in either profile and mode
InitTree ==
    /\ profile \in {"rc", "sync"}
    /\ mode \in Modes
    /\ tree = "plain"
    /\ visited = NoVisited
    /\ subtrees = {}
    /\ refs = InitRefs
    /\ held = [c \in Cells |-> 1]
    /\ ucells = << >>
    /\ last = NoCall
    /\ inserts = {}
    /\ accessed = {}
    /\ slotlog = << >>
    /\ thr = [t \in Threads |-> Idle]
    /\ mutex = 0
    /\ calls = 0

Init ==
    /\ InitTree
    /\ heap = << >>
    /\ obj = 0
    /\ reg = NoReg

\* the context track inserts the cell with
TrackCtx == "OnLoad"

\* UsageTree::track and UsageTreeWithSubtrees::track
Track(c) ==
    /\ TreeAlive
    /\ held[c] > 0
    /\ CanAllocate
    /\ LET u == << c, Cardinality(RootsOf(c)) + 1 >>
       IN  /\ visited' = Insert(visited, c, TrackCtx)
           /\ inserts' = inserts \cup {<<ReprHash(c), TrackCtx>>}
           /\ ucells' = ucells @@ (u :> Wrap(c))
           /\ last' = Call("track", u, 0, u, TRUE)
    /\ accessed' = Accessed("track", c)
    /\ UNCHANGED <<profile, mode, tree, subtrees, refs, held, slotlog>>
    /\ UNCHANGED syncvars
    /\ UNCHANGED purevars

\* data inserting with the context of a load
DataCtxLoad == "OnLoad"

\* the context data inserts the wrapped cell with
DataCtx == "OnDataAccess"

\* UsageCell::data
Data(u) ==
    /\ u \in UIds
    /\ LET cell == ucells[u].cell
       IN  /\ IF Upgrade
              THEN /\ visited' = Insert(visited, cell, DataCtx)
                   /\ inserts' = inserts \cup {<<ReprHash(cell), DataCtx>>}
              ELSE UNCHANGED <<visited, inserts>>
           /\ accessed' = Accessed("data", cell)
           /\ last' = Call("data", u, 0, CellData[cell], FALSE)
    /\ UNCHANGED <<profile, mode, tree, subtrees, refs, held, ucells, slotlog>>
    /\ UNCHANGED syncvars
    /\ UNCHANGED purevars

\* get_or_init finds the slot written (sync), `Some(value) => value` (rc)
SlotFilled(u, index) == ucells[u].children[index] \in {"some", "none"}

\* what a slot holds once the closure found no child: the one-shot cell of the
\* sync profile keeps the None, the rc profile returns early and writes nothing
AbsentSlot == IF profile = "sync" THEN "none" ELSE "empty"

\* what load_reference returns from a slot that is written
SlotValue(u, index) ==
    IF ucells[u].children[index] = "some" THEN Child(u, index) ELSE None

\* a closure that always loads the first reference
LoadedChildFirst(cell, index) == CellReference(cell, 0)

\* the child the closure of load_reference wraps: 0 when there is none
LoadedChild(cell, index) == CellReference(cell, index)

\* load_reference inserting with the context of a data access
LoadCtxData == "OnDataAccess"

\* the context load_reference inserts the child with
LoadCtx == "OnLoad"

\* UsageCell::load_reference, for the caller op
LoadReference(u, index, op) ==
    LET cell  == ucells[u].cell
        child == LoadedChild(cell, index)
    IN  IF index >= 4
        THEN /\ last' = Call(op, u, index, None, FALSE)
             /\ UNCHANGED <<visited, ucells, inserts, accessed, slotlog>>
        ELSE IF SlotFilled(u, index)
        THEN /\ last' = Call(op, u, index, SlotValue(u, index), FALSE)
             /\ UNCHANGED <<visited, ucells, inserts, accessed, slotlog>>
        ELSE IF child = 0
        THEN /\ ucells' = [ucells EXCEPT ![u].children[index] = AbsentSlot]
             /\ slotlog' = IF AbsentSlot = "empty" THEN slotlog
                           ELSE Logged(u, index, FALSE)
             /\ last' = Call(op, u, index, None, FALSE)
             /\ UNCHANGED <<visited, inserts, accessed>>
        ELSE /\ slotlog' = Logged(u, index, Upgrade)
             /\ IF Upgrade
                THEN /\ visited' = Insert(visited, child, LoadCtx)
                     /\ inserts' = inserts \cup {<<ReprHash(child), LoadCtx>>}
                ELSE UNCHANGED <<visited, inserts>>
             /\ accessed' = Accessed("resolve", child)
             /\ ucells' = [ucells EXCEPT ![u].children[index] = "some"]
                              @@ (Child(u, index) :> Wrap(child))
             /\ last' = Call(op, u, index, Child(u, index), TRUE)

\* a call of load_reference that allocates a usage cell
Allocates(u, index) ==
    /\ index < 4
    /\ ~SlotFilled(u, index)
    /\ LoadedChild(ucells[u].cell, index) # 0

\* UsageCell::reference
Reference(u, index) ==
    /\ u \in UIds
    /\ Allocates(u, index) => CanAllocate
    /\ LoadReference(u, index, "reference")
    /\ UNCHANGED <<profile, mode, tree, subtrees, refs, held>>
    /\ UNCHANGED syncvars
    /\ UNCHANGED purevars

\* UsageCell::reference_cloned
ReferenceCloned(u, index) ==
    /\ u \in UIds
    /\ Allocates(u, index) => CanAllocate
    /\ LoadReference(u, index, "reference")
    /\ UNCHANGED <<profile, mode, tree, subtrees, refs, held>>
    /\ UNCHANGED syncvars
    /\ UNCHANGED purevars

\* the pass-through getters of a usage cell
UDescriptor(u) == CellDescriptor(ucells[u].cell)

UBitLen(u) == CellBitLen[ucells[u].cell]

\* a usage cell with a hash of its own
UHashOwn(u, level) == << "usage", CellHashAt(ucells[u].cell, level) >>

UHash(u, level) == CellHashAt(ucells[u].cell, level)

UDepth(u, level) == CellDepthAt(ucells[u].cell, level)

\* a conversion that starts from a new state
WithSubtreesNew ==
    /\ tree = "plain"
    /\ tree' = "subtrees"
    /\ subtrees' = {}
    /\ visited' = NoVisited
    /\ last' = Call("with_subtrees", None, 0, "none", FALSE)
    /\ UNCHANGED <<profile, mode, refs, held, ucells, inserts, accessed, slotlog>>
    /\ UNCHANGED syncvars

\* the tree after with_subtrees: `state: self.state, subtrees: Default::default()`
WithSubtreesState ==
    /\ tree = "plain"
    /\ tree' = "subtrees"
    /\ subtrees' = {}
    /\ last' = Call("with_subtrees", None, 0, "none", FALSE)
    /\ UNCHANGED <<profile, mode, visited, refs, held, ucells, inserts, accessed, slotlog>>
    /\ UNCHANGED syncvars

\* UsageTree::with_subtrees
WithSubtrees ==
    /\ WithSubtreesState
    /\ UNCHANGED purevars

ContainsSubtree(repr_hash) == repr_hash \in subtrees

\* add_subtree returning whether the set held the value already
AddSubtreeContained(c) ==
    /\ tree = "subtrees"
    /\ subtrees' = subtrees \cup {ReprHash(c)}
    /\ accessed' = Accessed("subtree", c)
    /\ last' = Call("add_subtree", None, c, ReprHash(c) \in subtrees, FALSE)
    /\ UNCHANGED <<profile, mode, tree, visited, refs, held, ucells, inserts, slotlog>>
    /\ UNCHANGED syncvars
    /\ UNCHANGED purevars

\* UsageTreeWithSubtrees::add_subtree: HashSet::insert returns whether the
\* value was newly inserted
AddSubtree(c) ==
    /\ tree = "subtrees"
    /\ subtrees' = subtrees \cup {ReprHash(c)}
    /\ accessed' = Accessed("subtree", c)
    /\ last' = Call("add_subtree", None, c, ReprHash(c) \notin subtrees, FALSE)
    /\ UNCHANGED <<profile, mode, tree, visited, refs, held, ucells, inserts, slotlog>>
    /\ UNCHANGED syncvars
    /\ UNCHANGED purevars

\* the strong count of the handle of plain cell c: the handles of the caller, the
\* usage cells wrapping c, the entry of the visited map that keeps c, and the
\* references of the cells that are not freed
StrongCountIn(rf, hl, vis, uc, c) ==
    hl[c]
    + Cardinality({u \in DOMAIN uc : uc[u].cell = c})
    + Cardinality({h \in Hashes : vis[h].present /\ vis[h].cell = c})
    + Cardinality({pk \in Cells \X Slots :
                      pk[2] < Len(rf[pk[1]]) /\ rf[pk[1]][pk[2] + 1] = c})

StrongCount(c) == StrongCountIn(refs, held, visited, ucells, c)

\* a cell whose last handle is gone is freed and drops its references
RECURSIVE Collect(_, _, _, _)
Collect(rf, hl, vis, uc) ==
    LET dead == {c \in Cells : rf[c] # <<>> /\ StrongCountIn(rf, hl, vis, uc, c) = 0}
    IN  IF dead = {} THEN rf
        ELSE Collect([c \in Cells |-> IF c \in dead THEN <<>> ELSE rf[c]], hl, vis, uc)

\* the tree handle goes out of scope while no call borrows it: the state goes
\* with it unless a thread holds an upgraded reference
DropTree ==
    /\ TreeAlive
    /\ \A t \in Threads : thr[t].op # "track"
    /\ tree' = "dropped"
    /\ IF \E t \in Threads : thr[t].up
       THEN UNCHANGED <<visited, subtrees, inserts, accessed, refs>>
       ELSE /\ visited' = NoVisited
            /\ subtrees' = {}
            /\ inserts' = {}
            /\ accessed' = {}
            /\ refs' = Collect(refs, held, NoVisited, ucells)
    /\ last' = Call("drop", None, 0, "none", FALSE)
    /\ UNCHANGED <<profile, mode, held, ucells, slotlog>>
    /\ UNCHANGED syncvars
    /\ UNCHANGED purevars

\* the caller drops one of its handles of plain cell c
DropHandle(c) ==
    /\ held[c] > 0
    /\ held' = [held EXCEPT ![c] = @ - 1]
    /\ refs' = Collect(refs, held', visited, ucells)
    /\ last' = Call("drop_handle", None, c, "none", FALSE)
    /\ UNCHANGED <<profile, mode, tree, visited, subtrees, ucells, inserts, accessed, slotlog>>
    /\ UNCHANGED syncvars
    /\ UNCHANGED purevars

\* a handle that is always handed out mutably
TryAsMutAlways(c) == TRUE

\* Cell::try_as_mut: Arc::get_mut gives the cell only to its unique owner
TryAsMut(c) == StrongCount(c) = 1

\* take_first_child of an ordinary cell: its first reference, moved out
CellTakeFirstChild(c) == CellReference(c, 0)

\* take_next_child of an ordinary cell: its last reference beyond the first
CellTakeNextChild(c) == IF Len(refs[c]) > 1 THEN refs[c][Len(refs[c])] ELSE 0

\* the destructive calls need the usage cell itself mutably: only the caller's
\* own handle of a tracked root is unique, a child is shared with its parent's slot
UniqueUsageCell(u) == u \in Roots

\* UsageCell::take_first_child
TakeFirstChild(u) ==
    /\ UniqueUsageCell(u)
    /\ LET cell  == ucells[u].cell
           child == IF TryAsMut(cell) THEN CellTakeFirstChild(cell) ELSE 0
       IN  /\ last' = Call("take_first_child", u, 0, child, FALSE)
           /\ IF child # 0
              THEN /\ refs' = [refs EXCEPT ![cell][1] = 0]
                   /\ held' = [held EXCEPT ![child] = @ + 1]
              ELSE UNCHANGED <<refs, held>>
    /\ UNCHANGED <<profile, mode, tree, visited, subtrees, ucells, inserts, accessed, slotlog>>
    /\ UNCHANGED syncvars
    /\ UNCHANGED purevars

\* UsageCell::replace_first_child: the caller gives its handle of parent away
ReplaceFirstChild(u, parent) ==
    /\ UniqueUsageCell(u)
    /\ held[parent] > 0
    /\ LET cell  == ucells[u].cell
           child == IF TryAsMut(cell) THEN CellTakeFirstChild(cell) ELSE 0
       IN  IF child # 0
           THEN /\ refs' = [refs EXCEPT ![cell][1] = parent]
                /\ held' = [held EXCEPT ![parent] = @ - 1, ![child] = @ + 1]
                /\ last' = Call("replace_first_child", u, parent,
                                [ok |-> TRUE, cell |-> child], FALSE)
           ELSE /\ last' = Call("replace_first_child", u, parent,
                                [ok |-> FALSE, cell |-> parent], FALSE)
                /\ UNCHANGED <<refs, held>>
    /\ UNCHANGED <<profile, mode, tree, visited, subtrees, ucells, inserts, accessed, slotlog>>
    /\ UNCHANGED syncvars
    /\ UNCHANGED purevars

\* ---- the calls of the threads, step by step ----

\* the rc profile is not Send: one thread uses it
Active(t) == profile = "sync" \/ t = 1

\* a lock that never blocks
MutexFreeAlways == TRUE

\* Mutex::lock acquires the lock of the visited map when no thread holds it
MutexFree == mutex = 0

\* a one-shot cell that lets every caller run its closure
SlotBusyNever(u, index) == FALSE

\* get_or_init blocks while another caller runs the closure of the slot
SlotBusy(u, index) == ucells[u].children[index] = "running"

\* thread t has returned
Return(t) == thr' = [thr EXCEPT ![t] = Idle]

\* the usage cells once slot index of u holds a new wrapper of child
Resolved(u, index, child) ==
    [k \in DOMAIN ucells \cup {Child(u, index)} |->
        IF k = Child(u, index) THEN Wrap(child)
        ELSE IF k = u THEN [ucells[u] EXCEPT !.children[index] = "some"]
        ELSE ucells[k]]

\* thread t drops its upgraded reference: the state goes when it was the last
Freed(t) ==
    /\ thr[t].up
    /\ ~TreeAlive
    /\ \A o \in Threads \ {t} : ~thr[o].up

\* thread t calls track
TrackCall(t, c) ==
    /\ Active(t)
    /\ thr[t].pc = "idle"
    /\ calls < MaxCalls
    /\ TreeAlive
    /\ held[c] > 0
    /\ thr' = [thr EXCEPT ![t] = [Idle EXCEPT !.pc = "lock", !.op = "track",
                                              !.c = c, !.ctx = TrackCtx]]
    /\ calls' = calls + 1
    /\ UNCHANGED <<profile, mode, tree, visited, subtrees, refs, held, ucells,
                   last, inserts, accessed, slotlog, mutex>>
    /\ UNCHANGED purevars

\* thread t calls data on usage cell u
DataCall(t, u) ==
    /\ Active(t)
    /\ thr[t].pc = "idle"
    /\ calls < MaxCalls
    /\ thr' = [thr EXCEPT ![t] = [Idle EXCEPT !.pc = "upgrade", !.op = "data",
                                              !.u = u, !.c = ucells[u].cell,
                                              !.ctx = DataCtx]]
    /\ calls' = calls + 1
    /\ UNCHANGED <<profile, mode, tree, visited, subtrees, refs, held, ucells,
                   last, inserts, accessed, slotlog, mutex>>
    /\ UNCHANGED purevars

\* thread t calls reference: an index past the slots returns None at once
RefCall(t, u, index) ==
    /\ Active(t)
    /\ thr[t].pc = "idle"
    /\ calls < MaxCalls
    /\ calls' = calls + 1
    /\ IF index >= 4
       THEN /\ last' = Call("reference", u, index, None, FALSE)
            /\ UNCHANGED thr
       ELSE /\ thr' = [thr EXCEPT ![t] = [Idle EXCEPT !.pc = "once",
                                                      !.op = "reference",
                                                      !.u = u, !.i = index]]
            /\ UNCHANGED last
    /\ UNCHANGED <<profile, mode, tree, visited, subtrees, refs, held, ucells,
                   inserts, accessed, slotlog, mutex>>
    /\ UNCHANGED purevars

\* get_or_init of the slot: return what it holds, or start the closure
OnceStep(t) ==
    /\ thr[t].pc = "once"
    /\ LET u     == thr[t].u
           index == thr[t].i
           child == LoadedChild(ucells[u].cell, index)
       IN  IF SlotFilled(u, index)
           THEN /\ last' = Call("reference", u, index, SlotValue(u, index), FALSE)
                /\ Return(t)
                /\ UNCHANGED <<ucells, slotlog>>
           ELSE /\ ~SlotBusy(u, index)
                /\ IF child = 0
                   THEN /\ ucells' = [ucells EXCEPT ![u].children[index] = AbsentSlot]
                        /\ slotlog' = IF AbsentSlot = "empty" THEN slotlog
                                      ELSE Logged(u, index, FALSE)
                        /\ last' = Call("reference", u, index, None, FALSE)
                        /\ Return(t)
                   ELSE /\ ucells' = [ucells EXCEPT ![u].children[index] = "running"]
                        /\ thr' = [thr EXCEPT ![t].pc = "upgrade", ![t].c = child,
                                              ![t].ctx = LoadCtx]
                        /\ UNCHANGED <<last, slotlog>>
    /\ UNCHANGED <<profile, mode, tree, visited, subtrees, refs, held, inserts,
                   accessed, mutex, calls>>
    /\ UNCHANGED purevars

\* `if let Some(usage_tree) = self.usage_tree.upgrade()` of data and of the
\* closure of load_reference; without a tree the call finishes here
UpgradeStep(t) ==
    /\ thr[t].pc = "upgrade"
    /\ LET u     == thr[t].u
           index == thr[t].i
       IN  IF Upgrade
           THEN /\ thr' = [thr EXCEPT ![t].pc = "lock", ![t].up = TRUE]
                /\ UNCHANGED <<ucells, last, slotlog>>
           ELSE IF thr[t].op = "data"
           THEN /\ last' = Call("data", u, 0, CellData[thr[t].c], FALSE)
                /\ Return(t)
                /\ UNCHANGED <<ucells, slotlog>>
           ELSE /\ ucells' = Resolved(u, index, thr[t].c)
                /\ slotlog' = Logged(u, index, FALSE)
                /\ last' = Call("reference", u, index, Child(u, index), TRUE)
                /\ Return(t)
    /\ UNCHANGED <<profile, mode, tree, visited, subtrees, refs, held, inserts,
                   accessed, mutex, calls>>
    /\ UNCHANGED purevars

\* insert: `let mut visited = self.visited.lock()` and the lookup of the entry
InsertLock(t) ==
    /\ thr[t].pc = "lock"
    /\ MutexFree
    /\ mutex' = t
    /\ thr' = [thr EXCEPT ![t].pc = "store",
                          ![t].seen = visited[ReprHash(thr[t].c)]]
    /\ UNCHANGED <<profile, mode, tree, visited, subtrees, refs, held, ucells,
                   last, inserts, accessed, slotlog, calls>>
    /\ UNCHANGED purevars

\* insert: the write of the entry and the release of the lock; then the rest
\* of the call: track wraps the cell, data returns the data of the cell,
\* load_reference allocates the child and writes the slot
InsertStore(t) ==
    /\ thr[t].pc = "store"
    /\ LET u     == thr[t].u
           index == thr[t].i
           c     == thr[t].c
           root  == << c, Cardinality(RootsOf(c)) + 1 >>
       IN  /\ IF Freed(t)
              THEN /\ visited' = NoVisited
                   /\ subtrees' = {}
                   /\ inserts' = {}
              ELSE /\ visited' = InsertWith(visited, c, thr[t].ctx, thr[t].seen)
                   /\ inserts' = inserts \cup {<<ReprHash(c), thr[t].ctx>>}
                   /\ UNCHANGED subtrees
           /\ IF thr[t].op = "track"
              THEN /\ ucells' = ucells @@ (root :> Wrap(c))
                   /\ last' = Call("track", root, 0, root, TRUE)
                   /\ UNCHANGED slotlog
              ELSE IF thr[t].op = "data"
              THEN /\ last' = Call("data", u, 0, CellData[c], FALSE)
                   /\ UNCHANGED <<ucells, slotlog>>
              ELSE /\ ucells' = Resolved(u, index, c)
                   /\ slotlog' = Logged(u, index, TRUE)
                   /\ last' = Call("reference", u, index, Child(u, index), TRUE)
           /\ refs' = Collect(refs, held, visited', ucells')
    /\ mutex' = 0
    /\ Return(t)
    /\ UNCHANGED <<profile, mode, tree, held, accessed, calls>>
    /\ UNCHANGED purevars

\* thread t calls contains with the hash of cell c: the lookup under the lock
ContainsCall(t, c) ==
    /\ Active(t)
    /\ thr[t].pc = "idle"
    /\ calls < MaxCalls
    /\ TreeAlive
    /\ MutexFree
    /\ calls' = calls + 1
    /\ last' = Call("contains", None, c, ContainsIn(visited, ReprHash(c)), FALSE)
    /\ UNCHANGED <<profile, mode, tree, visited, subtrees, refs, held, ucells,
                   inserts, accessed, slotlog, thr, mutex>>
    /\ UNCHANGED purevars


\* UsageCell::take_next_child
TakeNextChild(u) ==
    /\ UniqueUsageCell(u)
    /\ LET cell  == ucells[u].cell
           child == IF TryAsMut(cell) THEN CellTakeNextChild(cell) ELSE 0
       IN  /\ last' = Call("take_next_child", u, 0, child, FALSE)
           /\ IF child # 0
              THEN /\ refs' = [refs EXCEPT ![cell] = SubSeq(@, 1, Len(@) - 1)]
                   /\ held' = [held EXCEPT ![child] = @ + 1]
              ELSE UNCHANGED <<refs, held>>
    /\ UNCHANGED <<profile, mode, tree, visited, subtrees, ucells, inserts, accessed, slotlog>>
    /\ UNCHANGED syncvars
    /\ UNCHANGED purevars

Next ==
    \/ \E c \in Cells : Track(c)
    \/ \E u \in UIds : Data(u)
    \/ \E u \in UIds : \E index \in Indexes(ucells[u].cell) : Reference(u, index)
    \/ \E u \in UIds : \E index \in Indexes(ucells[u].cell) : ReferenceCloned(u, index)
    \/ DropTree

Spec == Init /\ [][Next]_vars

\* the caller that upgrades the tree and records whole subtrees
NextSubtrees ==
    \/ \E c \in Cells : Track(c)
    \/ \E u \in UIds : Data(u)
    \/ WithSubtrees
    \/ \E c \in Cells : AddSubtree(c)
    \/ DropTree

SpecSubtrees == Init /\ [][NextSubtrees]_vars

\* the caller that gives handles up and walks usage cells destructively
NextMut ==
    \/ \E c \in Cells : Track(c)
    \/ \E c \in Cells : DropHandle(c)
    \/ DropTree
    \/ \E u \in UIds : TakeFirstChild(u)
    \/ \E u \in UIds, parent \in Cells : ReplaceFirstChild(u, parent)
    \/ \E u \in UIds : TakeNextChild(u)

\* ownership does not depend on the mode: one tree of the sync profile
InitMut == Init /\ profile = "sync" /\ mode = "OnLoad"

SpecMut == InitMut /\ [][NextMut]_vars

\* the threads that share one tree and its usage cells
NextSync ==
    \/ \E t \in Threads, c \in Cells : TrackCall(t, c)
    \/ \E t \in Threads, u \in UIds : DataCall(t, u)
    \/ \E t \in Threads, u \in UIds :
          \E index \in Indexes(ucells[u].cell) : RefCall(t, u, index)
    \/ \E t \in Threads : OnceStep(t)
    \/ \E t \in Threads : UpgradeStep(t)
    \/ \E t \in Threads : InsertLock(t)
    \/ \E t \in Threads : InsertStore(t)
    \/ \E t \in Threads, c \in Cells : ContainsCall(t, c)
    \/ DropTree

SpecSync == Init /\ [][NextSync]_vars

---------------------------------------------------------------------------
(* Cell handles: finalization, the empty cell, equality and virtualization *)
(* (src/src/cell/cell_impl/sync.rs).  A handle is an index of the heap.    *)

\* at most this many cell objects are allocated
MaxHeap == 4

Handles == 1 .. Len(heap)

\* CellDescriptor: d1 holds the reference count (bits 0..2), the exotic flag
\* (bit 3) and the level mask (bits 5..7)
RefCountOf(d1) == d1 % 8

IsExotic(d1) == (d1 \div 8) % 2 = 1

LevelMaskOf(d1) == (d1 \div 32) % 8

\* LevelMask::level: the number of bits of the mask
MaskLevel(mask) == (mask % 2) + ((mask \div 2) % 2) + ((mask \div 4) % 2)

\* CellDescriptor::virtualize(1): the level mask shifted right by one
VirtualizeD1(d1) == (d1 % 32) + 32 * (LevelMaskOf(d1) \div 2)

\* CellDescriptor::cell_type: ordinary without the exotic flag, else the type
\* named by the first byte of the data
CellTypeOf(d1, data) ==
    IF ~IsExotic(d1) THEN "Ordinary"
    ELSE IF data # << >> /\ data[1] = 1 THEN "PrunedBranch"
    ELSE IF data # << >> /\ data[1] = 2 THEN "LibraryReference"
    ELSE "Merkle"

Min(a, b) == IF a <= b THEN a ELSE b

Max(a, b) == IF a >= b THEN a ELSE b

\* the (hash, depth) pair of an allocated object at a level; a view delegates
\* to the next level of the cell it wraps, a pruned branch keeps the pairs of
\* the levels below its own in its data
RECURSIVE HashPair(_, _, _)
HashPair(hp, h, level) ==
    LET o == hp[h]
        l == Min(level, MaskLevel(LevelMaskOf(o.d1)))
    IN  IF o.kind = "Virtual" THEN HashPair(hp, o.inner, Min(level + 1, 3))
        ELSE IF o.kind = "PrunedBranch" /\ l < MaskLevel(LevelMaskOf(o.d1))
        THEN [hash |-> <<"pruned", o.data, l>>, depth |-> 7 + l]
        ELSE IF o.kind = "PrunedBranch" THEN o.hashes[1]
        ELSE o.hashes[l + 1]

\* CellImpl::descriptor of an allocated object
RECURSIVE DescriptorOf(_, _)
DescriptorOf(hp, h) ==
    IF hp[h].kind = "Virtual"
    THEN LET d == DescriptorOf(hp, hp[h].inner)
         IN  [d1 |-> VirtualizeD1(d.d1), d2 |-> d.d2]
    ELSE [d1 |-> hp[h].d1, d2 |-> hp[h].d2]

HashOf(h, level) == HashPair(heap, h, level).hash

DepthOf(h, level) == HashPair(heap, h, level).depth

\* CellImpl::repr_hash: the hash at the highest level
ReprHashOf(h) == HashOf(h, 3)

\* the cell object behind empty_cell_ref()
EmptyOrdinaryCell ==
    [kind |-> "EmptyOrdinary", d1 |-> 0, d2 |-> 0, bit_len |-> 0, data |-> << >>,
     references |-> << >>, inner |-> 0,
     hashes |-> << [hash |-> <<0, 0, << >>, << >>>>, depth |-> 0] >>]

\* CellParts::compute_hashes: one pair per level of the descriptor for an
\* ordinary cell, the representation pair for an exotic one; an ordinary cell
\* whose level mask is not the union of the masks of its children is refused
ChildrenMask(hp, references) ==
    LET bit(b) == IF \E k \in 1 .. Len(references) :
                        (LevelMaskOf(DescriptorOf(hp, references[k]).d1) \div b) % 2 = 1
                  THEN b ELSE 0
    IN  bit(1) + bit(2) + bit(4)

ComputeHashesOk(hp, ctx) ==
    IsExotic(ctx.d1) \/ ChildrenMask(hp, ctx.references) = LevelMaskOf(ctx.d1)

ComputeHashes(hp, ctx) ==
    LET n == Len(ctx.references)
        pair(l) ==
            [hash  |-> << ctx.d1, ctx.d2, ctx.data,
                          [k \in 1 .. n |-> HashPair(hp, ctx.references[k], l)] >>,
             depth |-> IF n = 0 THEN 0
                       ELSE 1 + Max(HashPair(hp, ctx.references[1], l).depth,
                                    HashPair(hp, ctx.references[n], l).depth)]
    IN  IF IsExotic(ctx.d1) THEN << pair(3) >>
        ELSE [i \in 1 .. MaskLevel(LevelMaskOf(ctx.d1)) + 1 |-> pair(i - 1)]

\* a finalizer that keeps an ordinary cell object for the empty descriptor
IsEmptyDescriptorNever(d1, d2) == FALSE

\* `ctx.descriptor.d1 == 0 && ctx.descriptor.d2 == 0`
IsEmptyDescriptor(d1, d2) == d1 = 0 /\ d2 = 0

\* make_cell: the object allocated for finalized parts
MakeCell(ctx, hashes) ==
    LET cell_type == CellTypeOf(ctx.d1, ctx.data)
        exotic(kind) ==
            [kind |-> kind, d1 |-> ctx.d1, d2 |-> ctx.d2, bit_len |-> 8 * Len(ctx.data),
             data |-> ctx.data, references |-> << >>, inner |-> 0,
             hashes |-> << hashes[1] >>]
    IN  IF cell_type = "PrunedBranch" THEN exotic("PrunedBranch")
        ELSE IF cell_type = "LibraryReference" THEN exotic("LibraryReference")
        ELSE IF cell_type = "Ordinary" /\ IsEmptyDescriptor(ctx.d1, ctx.d2)
        THEN EmptyOrdinaryCell
        ELSE [kind |-> "Ordinary", d1 |-> ctx.d1, d2 |-> ctx.d2,
              bit_len |-> ctx.bit_len, data |-> ctx.data,
              references |-> ctx.references, inner |-> 0, hashes |-> hashes]

\* VirtualCell(cell)
VirtualCell(cell) ==
    [kind |-> "Virtual", d1 |-> 0, d2 |-> 0, bit_len |-> 0, data |-> << >>,
     references |-> << >>, inner |-> cell, hashes |-> << >>]

\* the parts the caller finalizes: the empty descriptor with and without
\* leftover bits, data and references, an ordinary cell with one byte and at
\* most one child, pruned branches of level 1 and 3, a library reference
PrunedMasks == {1, 7}

CellPartsSet ==
    LET children == {<< >>} \cup (IF heap = << >> THEN {} ELSE {<< Len(heap) >>})
        parts(d1, d2, bit_len, data, references) ==
            [d1 |-> d1, d2 |-> d2, bit_len |-> bit_len, data |-> data,
             references |-> references]
    IN  {parts(0, 0, 0, << >>, << >>), parts(0, 0, 8, <<171>>, << >>)}
        \cup {parts(0, 0, 8, <<171>>, r) : r \in children \ {<< >>}}
        \cup {parts(Len(r) + 32 * ChildrenMask(heap, r), 2, 8, <<171>>, r) : r \in children}
        \cup {parts(8 + 32 * m, 72, 288, <<1, m>>, << >>) : m \in PrunedMasks}
        \cup {parts(8, 66, 264, <<2, 5>>, << >>)}

\* a call on cells: the handle and the parts it was made with, the handle it
\* returned (0 for an error)
CellCall(op, cell, ctx, ret) == [op |-> op, cell |-> cell, ctx |-> ctx, ret |-> ret]

NoParts == [d1 |-> 0, d2 |-> 0, bit_len |-> 0, data |-> << >>, references |-> << >>]

\* ArcCellFinalizer::finalize_cell
FinalizeCell(ctx) ==
    /\ Len(heap) < MaxHeap
    /\ IF ComputeHashesOk(heap, ctx)
       THEN /\ heap' = Append(heap, MakeCell(ctx, ComputeHashes(heap, ctx)))
            /\ reg' = CellCall("finalize_cell", 0, ctx, Len(heap) + 1)
       ELSE /\ heap' = heap
            /\ reg' = CellCall("finalize_cell", 0, ctx, 0)
    /\ UNCHANGED <<treevars, obj>>

\* Cell::empty_cell
EmptyCell ==
    /\ Len(heap) < MaxHeap
    /\ heap' = Append(heap, EmptyOrdinaryCell)
    /\ reg' = CellCall("empty_cell", 0, NoParts, Len(heap) + 1)
    /\ UNCHANGED <<treevars, obj>>

\* a virtualize that wraps every cell
LevelMaskIsEmptyNever(mask) == FALSE

\* a virtualize that wraps no cell
LevelMaskIsEmptyAlways(mask) == TRUE

\* `descriptor.level_mask().is_empty()`
LevelMaskIsEmpty(mask) == mask = 0

\* Cell::virtualize
Virtualize(cell) ==
    /\ cell \in Handles
    /\ LET descriptor == DescriptorOf(heap, cell)
       IN  IF LevelMaskIsEmpty(LevelMaskOf(descriptor.d1))
           THEN /\ heap' = heap
                /\ reg' = CellCall("virtualize", cell, NoParts, cell)
           ELSE /\ Len(heap) < MaxHeap
                /\ heap' = Append(heap, VirtualCell(cell))
                /\ reg' = CellCall("virtualize", cell, NoParts, Len(heap) + 1)
    /\ UNCHANGED <<treevars, obj>>

\* the caller that finalizes, virtualizes and compares cells
NextCells ==
    \/ \E ctx \in CellPartsSet : FinalizeCell(ctx)
    \/ EmptyCell
    \/ \E cell \in Handles : Virtualize(cell)

SpecCells == InitMut /\ [][NextCells]_vars

---------------------------------------------------------------------------
(* Store and Load of the models (src/src/models).  A cell under a codec is  *)
(* the record of its data bits and of its references; a slice is what is   *)
(* left of it to read.  Numbers are stored big-endian.                     *)

\* the n bits of number v, most significant first
Bits(v, n) == [i \in 1 .. n |-> IF n - i >= 31 THEN 0 ELSE (v \div (2 ^ (n - i))) % 2]

\* the number of a sequence of bits
RECURSIVE Val(_)
Val(bits) ==
    LET n == Len(bits)
        h == n \div 2
        hi == Val(SubSeq(bits, 1, h))
        lo == Val(SubSeq(bits, h + 1, n))
    IN  IF n = 0 THEN 0
        ELSE IF n = 1 THEN bits[1]
        ELSE IF hi = 0 THEN lo
        ELSE hi * (2 ^ (n - h)) + lo

\* CellBuilder::new
NoBits == [bits |-> << >>, refs |-> << >>]

\* CellBuilder::store_uint and store_reference
StoreBits(b, bits) == [b EXCEPT !.bits = @ \o bits]

StoreRef(b, cell) == [b EXCEPT !.refs = Append(@, cell)]

\* CellSlice::load_uint and load_reference: what is read and what is left
HasBits(s, n) == Len(s.bits) >= n

TakeBits(s, n) == SubSeq(s.bits, 1, n)

SkipBits(s, n) == [s EXCEPT !.bits = SubSeq(@, n + 1, Len(@))]

HasRef(s) == s.refs # << >>

SkipRef(s) == [s EXCEPT !.refs = Tail(@)]

\* the results of load_from
Loaded(value, rest) == [ok |-> TRUE, value |-> value, rest |-> rest]

Failed(err) == [ok |-> FALSE, err |-> err]

\* ConsensusConfig::TAG_V1 and TAG_V2
ConsensusConfigTagV1 == 214

ConsensusConfigTagV2 == 215

\* impl Store for ConsensusConfig
ConsensusConfigStoreInto(c) ==
    LET flags == IF c.new_catchain_ids THEN 1 ELSE 0
        b1 == StoreBits(NoBits, Bits(ConsensusConfigTagV2, 8))
        b2 == StoreBits(b1, Bits(flags, 8))
        b3 == StoreBits(b2, Bits(c.round_candidates % 256, 8))
        b4 == StoreBits(b3, Bits(c.next_candidate_delay_ms, 32))
        b5 == StoreBits(b4, Bits(c.consensus_timeout_ms, 32))
        b6 == StoreBits(b5, Bits(c.fast_attempts, 32))
        b7 == StoreBits(b6, Bits(c.attempt_duration, 32))
        b8 == StoreBits(b7, Bits(c.catchain_max_deps, 32))
        b9 == StoreBits(b8, Bits(c.max_block_bytes, 32))
    IN  StoreBits(b9, Bits(c.max_collated_bytes, 32))

\* the flags the TAG_V2 arm of load_from hands on: `(0, ...)`
ConsensusConfigFlags(flags) == 0

\* impl Load for ConsensusConfig
ConsensusConfigLoadFrom(slice) ==
    LET tag == Val(TakeBits(slice, 8))
        s1  == SkipBits(slice, 8)
        \* the flags, the candidates and the slice left after them, or an error
        head ==
            IF tag = ConsensusConfigTagV1
            THEN IF ~HasBits(s1, 32) THEN Failed("CellUnderflow")
                 ELSE IF Val(TakeBits(s1, 32)) = 0 THEN Failed("InvalidData")
                 ELSE Loaded([flags |-> 0, round_candidates |-> Val(TakeBits(s1, 32))],
                             SkipBits(s1, 32))
            ELSE IF tag = ConsensusConfigTagV2
            THEN IF ~HasBits(s1, 8) THEN Failed("CellUnderflow")
                 ELSE IF Val(TakeBits(s1, 8)) \div 2 # 0 THEN Failed("InvalidData")
                 ELSE IF ~HasBits(s1, 16) THEN Failed("CellUnderflow")
                 ELSE IF Val(SubSeq(s1.bits, 9, 16)) = 0 THEN Failed("InvalidData")
                 ELSE Loaded([flags |-> ConsensusConfigFlags(Val(TakeBits(s1, 8))),
                              round_candidates |-> Val(SubSeq(s1.bits, 9, 16))],
                             SkipBits(s1, 16))
            ELSE Failed("InvalidTag")
        n == 7
        field(k) == Val(SubSeq(head.rest.bits, 32 * (k - 1) + 1, 32 * k))
    IN  IF ~HasBits(slice, 8) THEN Failed("CellUnderflow")
        ELSE IF ~head.ok THEN head
        ELSE IF ~HasBits(head.rest, 32 * n) THEN Failed("CellUnderflow")
        ELSE Loaded([new_catchain_ids |-> head.value.flags % 2 # 0,
                     round_candidates |-> head.value.round_candidates,
                     next_candidate_delay_ms |-> field(1),
                     consensus_timeout_ms |-> field(2),
                     fast_attempts |-> field(3),
                     attempt_duration |-> field(4),
                     catchain_max_deps |-> field(5),
                     max_block_bytes |-> field(6),
                     max_collated_bytes |-> field(7)],
                    SkipBits(head.rest, 32 * n))

\* the ConsensusConfig values stored: both flags, one candidate and the most a
\* byte holds and the first counts past it, every other field different
ConsensusConfigs ==
    {[new_catchain_ids |-> f, round_candidates |-> r,
      next_candidate_delay_ms |-> a + 1, consensus_timeout_ms |-> a + 2,
      fast_attempts |-> a + 3, attempt_duration |-> a + 4,
      catchain_max_deps |-> a + 5, max_block_bytes |-> a + 6,
      max_collated_bytes |-> a + 7] :
        f \in BOOLEAN, r \in {1, 3, 255, 256, 257}, a \in {0, 100, 70000}}

\* a value under a codec
Input(type, value) == [type |-> type, value |-> value]

\* a call of a codec: the cell it wrote or read and what it returned
CodecCall(op, cell, ret) == [op |-> op, cell |-> cell, ret |-> ret]

\* a u64, its 64 bits
U64(n) == Bits(n, 64)

\* the carry of a + b into bit i of a u64, bit 1 the most significant: from a
\* lower bit set in both through bits set in one
CarryInto(a, b, i) ==
    \E j \in i + 1 .. 64 :
        /\ a[j] = 1
        /\ b[j] = 1
        /\ \A k \in i + 1 .. j - 1 : a[k] + b[k] = 1

\* a + b of two u64 does not fit a u64
OverflowsU64(a, b) == CarryInto(a, b, 0)

\* a + b of two u64, wrapped
WrappingAddU64(a, b) ==
    [i \in 1 .. 64 |-> (a[i] + b[i] + (IF CarryInto(a, b, i) THEN 1 ELSE 0)) % 2]

\* Option<T>
Absent == [some |-> FALSE, value |-> 0]

Some(x) == [some |-> TRUE, value |-> x]

\* ValidatorDescription::TAG_BASIC, TAG_WITH_ADNL and TAG_WITH_MC_SEQNO
TagBasic == 83

TagWithAdnl == 115

TagWithMcSeqno == 147

\* ValidatorDescription::PUBKEY_TAG, 0x8e81278a, as the 32 bits stored
PubkeyTag == Bits(36481, 16) \o Bits(10122, 16)

\* the address stored: zeros when the seqno is stored
AdnlStored(d, with_mc_seqno) ==
    IF with_mc_seqno THEN Some(0) ELSE d.adnl_addr

\* impl Store for ValidatorDescription
ValidatorDescriptionStoreInto(b, d) ==
    LET with_mc_seqno == d.mc_seqno_since # 0
        tag == IF with_mc_seqno THEN TagWithMcSeqno
               ELSE IF d.adnl_addr.some THEN TagWithAdnl
               ELSE TagBasic
        b1 == StoreBits(b, Bits(tag, 8))
        b2 == StoreBits(b1, PubkeyTag)
        b3 == StoreBits(b2, Bits(d.public_key, 256))
        b4 == StoreBits(b3, d.weight)
        adnl == AdnlStored(d, with_mc_seqno)
        b5 == IF adnl.some THEN StoreBits(b4, Bits(adnl.value, 256)) ELSE b4
    IN  IF with_mc_seqno THEN StoreBits(b5, Bits(d.mc_seqno_since, 32)) ELSE b5

\* impl Load for ValidatorDescription
ValidatorDescriptionLoadFrom(slice) ==
    LET tag == Val(TakeBits(slice, 8))
        with_adnl == tag \in {TagWithAdnl, TagWithMcSeqno}
        with_mc_seqno == tag = TagWithMcSeqno
        s1 == SkipBits(slice, 8)
        s2 == SkipBits(s1, 32)
        s3 == SkipBits(s2, 256)
        s4 == SkipBits(s3, 64)
        s5 == IF with_adnl THEN SkipBits(s4, 256) ELSE s4
        s6 == IF with_mc_seqno THEN SkipBits(s5, 32) ELSE s5
    IN  IF ~HasBits(slice, 8) THEN Failed("CellUnderflow")
        ELSE IF tag \notin {TagBasic, TagWithAdnl, TagWithMcSeqno} THEN Failed("InvalidTag")
        ELSE IF ~HasBits(s1, 32) THEN Failed("CellUnderflow")
        ELSE IF TakeBits(s1, 32) # PubkeyTag THEN Failed("InvalidTag")
        ELSE IF ~HasBits(s2, 256) THEN Failed("CellUnderflow")
        ELSE IF ~HasBits(s3, 64) THEN Failed("CellUnderflow")
        ELSE IF with_adnl /\ ~HasBits(s4, 256) THEN Failed("CellUnderflow")
        ELSE IF with_mc_seqno /\ ~HasBits(s5, 32) THEN Failed("CellUnderflow")
        ELSE Loaded([public_key |-> Val(TakeBits(s2, 256)),
                     weight |-> TakeBits(s3, 64),
                     adnl_addr |-> IF with_adnl THEN Some(Val(TakeBits(s4, 256))) ELSE Absent,
                     mc_seqno_since |-> IF with_mc_seqno THEN Val(TakeBits(s5, 32)) ELSE 0],
                    s6)

\* the ValidatorDescription values stored: without an address, with the zero
\* address and with another one, with and without a seqno
ValidatorDescriptions ==
    {[public_key |-> k, weight |-> w, adnl_addr |-> a, mc_seqno_since |-> q] :
        k \in {5, 6}, w \in {U64(1), U64(2)}, a \in {Absent, Some(0), Some(9)}, q \in {0, 4}}

\* the most validators of a set stored
MaxValidators == 2

\* Option<Cell>: a bit, and a reference when there is a cell
NoCell == [some |-> FALSE, value |-> NoBits]

OptionCellStoreInto(b, o) ==
    IF o.some THEN StoreRef(StoreBits(b, <<1>>), o.value) ELSE StoreBits(b, <<0>>)

OptionCellLoadFrom(slice) ==
    IF ~HasBits(slice, 1) THEN Failed("CellUnderflow")
    ELSE IF slice.bits[1] = 0 THEN Loaded(NoCell, SkipBits(slice, 1))
    ELSE IF ~HasRef(slice) THEN Failed("CellUnderflow")
    ELSE Loaded(Some(Head(slice.refs)), SkipRef(SkipBits(slice, 1)))

\* Dict<K, V>: a dictionary is its root, Option<Cell>, and is stored and loaded
\* as one; the root cell holds one cell per entry, by increasing key, the bits
\* of the key before the value
DictEntry(key, value) == [bits |-> key \o value.bits, refs |-> value.refs]

DictRoot(entries) == [bits |-> << >>, refs |-> entries]

\* the dictionary of a sequence of entries
DictOf(entries) == IF entries = << >> THEN NoCell ELSE Some(DictRoot(entries))

\* the entries of a dictionary, as its iterators walk them
DictEntries(dict) == IF dict.some THEN dict.value.refs ELSE << >>

\* ValidatorSet::TAG_V1 and TAG_V2
ValidatorSetTagV1 == 17

ValidatorSetTagV2 == 18

\* the dictionary store_into builds: item i of the list under key i
ValidatorsDict(list) ==
    [i \in 1 .. Len(list) |->
        DictEntry(Bits(i - 1, 16), ValidatorDescriptionStoreInto(NoBits, list[i]))]

\* impl Store for ValidatorSet
ValidatorSetStoreInto(v) ==
    LET total == Len(v.list)
        b1 == StoreBits(NoBits, Bits(ValidatorSetTagV2, 8))
        b2 == StoreBits(b1, Bits(v.utime_since, 32))
        b3 == StoreBits(b2, Bits(v.utime_until, 32))
        b4 == StoreBits(b3, Bits(total, 16))
        b5 == StoreBits(b4, Bits(v.main, 16))
        b6 == StoreBits(b5, v.total_weight)
    IN  IF total > 65535 THEN Failed("InvalidData")
        ELSE Loaded(0, OptionCellStoreInto(b6, DictOf(ValidatorsDict(v.list))))

\* a panic of the thread
Panicked == Failed("panic")

\* computed_total_weight += descr.weight: a panic on overflow in a build with
\* overflow checks (debug), the sum wrapped in one without (release)
AddAssign(a, b, overflow_checks) ==
    IF OverflowsU64(a, b) /\ overflow_checks THEN Panicked
    ELSE Loaded(WrappingAddU64(a, b), NoBits)

\* the loop of load_from over the entries: the list and the weight computed,
\* or the first error
RECURSIVE LoadValidators(_, _, _, _, _)
LoadValidators(entries, i, total, acc, overflow_checks) ==
    IF i >= total \/ i >= Len(entries) THEN Loaded(acc, NoBits)
    ELSE LET entry == entries[i + 1]
             idx == Val(SubSeq(entry.bits, 1, 16))
             descr == ValidatorDescriptionLoadFrom(SkipBits(entry, 16))
             sum == AddAssign(acc.weight, descr.value.weight, overflow_checks)
         IN  IF ~HasBits(entry, 16) THEN Failed("CellUnderflow")
             ELSE IF ~descr.ok THEN descr
             ELSE IF idx # i THEN Failed("InvalidData")
             ELSE IF ~sum.ok THEN sum
             ELSE LoadValidators(entries, i + 1, total,
                      [list |-> Append(acc.list, descr.value), weight |-> sum.value],
                      overflow_checks)

\* impl Load for ValidatorSet
ValidatorSetLoadFrom(slice, overflow_checks) ==
    LET tag == Val(TakeBits(slice, 8))
        with_total_weight == tag = ValidatorSetTagV2
        s1 == SkipBits(slice, 8)
        s2 == SkipBits(s1, 32)
        s3 == SkipBits(s2, 32)
        s4 == SkipBits(s3, 16)
        s5 == SkipBits(s4, 16)
        s6 == IF with_total_weight THEN SkipBits(s5, 64) ELSE s5
        total == Val(TakeBits(s3, 16))
        main == Val(TakeBits(s4, 16))
        dict == OptionCellLoadFrom(s6)
        loop == LoadValidators(DictEntries(dict.value), 0, total,
                               [list |-> << >>, weight |-> U64(0)], overflow_checks)
    IN  IF ~HasBits(slice, 8) THEN Failed("CellUnderflow")
        ELSE IF tag \notin {ValidatorSetTagV1, ValidatorSetTagV2} THEN Failed("InvalidTag")
        ELSE IF ~HasBits(s1, 32) \/ ~HasBits(s2, 32) \/ ~HasBits(s3, 16) \/ ~HasBits(s4, 16)
        THEN Failed("CellUnderflow")
        ELSE IF main = 0 THEN Failed("InvalidData")
        ELSE IF main > total THEN Failed("InvalidData")
        ELSE IF with_total_weight /\ ~HasBits(s5, 64) THEN Failed("CellUnderflow")
        ELSE IF ~dict.ok THEN dict
        ELSE IF ~loop.ok THEN loop
        ELSE IF loop.value.list = << >> THEN Failed("InvalidData")
        ELSE IF with_total_weight /\ TakeBits(s5, 64) # loop.value.weight
        THEN Failed("InvalidData")
        ELSE Loaded([utime_since |-> Val(TakeBits(s1, 32)),
                     utime_until |-> Val(TakeBits(s2, 32)),
                     main |-> main,
                     total_weight |-> loop.value.weight,
                     list |-> loop.value.list],
                    dict.rest)

\* the descriptions of the sets stored: one of each tag form
SetDescriptions ==
    {[public_key |-> 5, weight |-> U64(1), adnl_addr |-> Absent, mc_seqno_since |-> 0],
     [public_key |-> 6, weight |-> U64(2), adnl_addr |-> Some(9), mc_seqno_since |-> 0],
     [public_key |-> 7, weight |-> U64(2), adnl_addr |-> Some(0), mc_seqno_since |-> 4],
     [public_key |-> 8, weight |-> U64(1), adnl_addr |-> Absent, mc_seqno_since |-> 4]}

\* the lists of at most n descriptions
RECURSIVE ListsUpTo(_)
ListsUpTo(n) ==
    IF n = 0 THEN {<< >>}
    ELSE ListsUpTo(n - 1)
         \cup {Append(l, d) : l \in {m \in ListsUpTo(n - 1) : Len(m) = n - 1},
                              d \in SetDescriptions}

\* the ValidatorSet values stored
ValidatorSets ==
    {[utime_since |-> 10, utime_until |-> 20, main |-> m, total_weight |-> w, list |-> l] :
        m \in 1 .. MaxValidators + 1, w \in {U64(k) : k \in 1 .. 2 * MaxValidators},
        l \in ListsUpTo(MaxValidators)}

\* 2^63 and 2^64 - 1 as u64
HalfU64 == [i \in 1 .. 64 |-> IF i = 1 THEN 1 ELSE 0]

MaxU64 == [i \in 1 .. 64 |-> 1]

\* the cells parsed as a ValidatorSet: stored sets of validators of small and
\* of large weights, each also without its last bit
ValidatorSetCells ==
    LET descr(k, w) == [public_key |-> k, weight |-> w, adnl_addr |-> Absent, mc_seqno_since |-> 0]
        weights == {U64(1), HalfU64, MaxU64}
        lists == UNION {[1 .. n -> weights] : n \in 1 .. MaxValidators}
        sets == {[utime_since |-> 10, utime_until |-> 20, main |-> 1, total_weight |-> t,
                  list |-> [i \in DOMAIN ws |-> descr(i, ws[i])]] :
                    ws \in lists, t \in {U64(0), U64(2), HalfU64, MaxU64}}
        stored == {ValidatorSetStoreInto(v).rest : v \in sets}
    IN  stored \cup {[c EXCEPT !.bits = SubSeq(@, 1, Len(@) - 1)] : c \in stored}

\* the phases of a transaction (StoragePhase, CreditPhase, ComputePhase,
\* ActionPhase, BouncePhase): a phase is a number stored in 4 bits
PhaseStoreInto(b, p) == StoreBits(b, Bits(p, 4))

PhaseLoadFrom(slice) ==
    IF ~HasBits(slice, 4) THEN Failed("CellUnderflow")
    ELSE Loaded(Val(TakeBits(slice, 4)), SkipBits(slice, 4))

\* Option<T> of a phase: a bit, and the phase when there is one
OptionPhaseStoreInto(b, o) ==
    IF o.some THEN PhaseStoreInto(StoreBits(b, <<1>>), o.value) ELSE StoreBits(b, <<0>>)

OptionPhaseLoadFrom(slice) ==
    IF ~HasBits(slice, 1) THEN Failed("CellUnderflow")
    ELSE IF slice.bits[1] = 0 THEN Loaded(Absent, SkipBits(slice, 1))
    ELSE LET p == PhaseLoadFrom(SkipBits(slice, 1))
         IN  IF p.ok THEN Loaded(Some(p.value), p.rest) ELSE p

\* the action phase in a cell of its own, as the infos store it
ActionPhaseCell(o) ==
    IF o.some THEN Some(PhaseStoreInto(NoBits, o.value)) ELSE NoCell

\* the action phase read back: Option<Cell>, then cell.parse::<ActionPhase>()
ActionPhaseLoadFrom(slice) ==
    LET c == OptionCellLoadFrom(slice)
        p == PhaseLoadFrom(c.value.value)
    IN  IF ~c.ok THEN c
        ELSE IF ~c.value.some THEN Loaded(Absent, c.rest)
        ELSE IF ~p.ok THEN p
        ELSE Loaded(Some(p.value), c.rest)

Bit(flag) == IF flag THEN 1 ELSE 0

\* impl Store for TickTock and impl Load for TickTock
TickTockStoreInto(b, kind) == StoreBits(b, <<Bit(kind = "Tock")>>)

TickTockLoadFrom(slice) ==
    IF ~HasBits(slice, 1) THEN Failed("CellUnderflow")
    ELSE Loaded(IF slice.bits[1] = 1 THEN "Tock" ELSE "Tick", SkipBits(slice, 1))

\* impl Store for OrdinaryTxInfo
OrdinaryTxInfoStoreInto(b, info) ==
    LET action_phase == ActionPhaseCell(info.action_phase)
        b1 == StoreBits(b, <<Bit(info.credit_first)>>)
        b2 == OptionPhaseStoreInto(b1, info.storage_phase)
        b3 == OptionPhaseStoreInto(b2, info.credit_phase)
        b4 == PhaseStoreInto(b3, info.compute_phase)
        b5 == OptionCellStoreInto(b4, action_phase)
        b6 == StoreBits(b5, <<Bit(info.aborted)>>)
        b7 == OptionPhaseStoreInto(b6, info.bounce_phase)
    IN  StoreBits(b7, <<Bit(info.destroyed)>>)

\* impl Load for OrdinaryTxInfo
OrdinaryTxInfoLoadFrom(slice) ==
    LET storage == OptionPhaseLoadFrom(SkipBits(slice, 1))
        credit == OptionPhaseLoadFrom(storage.rest)
        compute == PhaseLoadFrom(credit.rest)
        action == ActionPhaseLoadFrom(compute.rest)
        bounce == OptionPhaseLoadFrom(SkipBits(action.rest, 1))
    IN  IF ~HasBits(slice, 1) THEN Failed("CellUnderflow")
        ELSE IF ~storage.ok THEN storage
        ELSE IF ~credit.ok THEN credit
        ELSE IF ~compute.ok THEN compute
        ELSE IF ~action.ok THEN action
        ELSE IF ~HasBits(action.rest, 1) THEN Failed("CellUnderflow")
        ELSE IF ~bounce.ok THEN bounce
        ELSE IF ~HasBits(bounce.rest, 1) THEN Failed("CellUnderflow")
        ELSE Loaded([credit_first |-> slice.bits[1] = 1,
                     storage_phase |-> storage.value,
                     credit_phase |-> credit.value,
                     compute_phase |-> compute.value,
                     action_phase |-> action.value,
                     aborted |-> action.rest.bits[1] = 1,
                     bounce_phase |-> bounce.value,
                     destroyed |-> bounce.rest.bits[1] = 1],
                    SkipBits(bounce.rest, 1))

\* ((aborted as u8) << 1) | (destroyed as u8)
TickTockFlags(aborted, destroyed) == 2 * Bit(aborted) + Bit(destroyed)

\* impl Store for TickTockTxInfo
TickTockTxInfoStoreInto(b, info) ==
    LET action_phase == ActionPhaseCell(info.action_phase)
        b1 == TickTockStoreInto(b, info.kind)
        b2 == PhaseStoreInto(b1, info.storage_phase)
        b3 == PhaseStoreInto(b2, info.compute_phase)
        b4 == OptionCellStoreInto(b3, action_phase)
    IN  StoreBits(b4, Bits(TickTockFlags(info.aborted, info.destroyed), 2))

\* impl Load for TickTockTxInfo
TickTockTxInfoLoadFrom(slice) ==
    LET kind == TickTockLoadFrom(slice)
        storage == PhaseLoadFrom(kind.rest)
        compute == PhaseLoadFrom(storage.rest)
        action == ActionPhaseLoadFrom(compute.rest)
        flags == Val(TakeBits(action.rest, 2))
    IN  IF ~kind.ok THEN kind
        ELSE IF ~storage.ok THEN storage
        ELSE IF ~compute.ok THEN compute
        ELSE IF ~action.ok THEN action
        ELSE IF ~HasBits(action.rest, 2) THEN Failed("CellUnderflow")
        ELSE Loaded([kind |-> kind.value,
                     storage_phase |-> storage.value,
                     compute_phase |-> compute.value,
                     action_phase |-> action.value,
                     aborted |-> (flags \div 2) % 2 # 0,
                     destroyed |-> flags % 2 # 0],
                    SkipBits(action.rest, 2))

\* enum TxInfo
Ordinary(info) == [variant |-> "Ordinary", info |-> info]

TickTock(info) == [variant |-> "TickTock", info |-> info]

\* impl Store for TxInfo
TxInfoStoreInto(b, v) ==
    IF v.variant = "Ordinary"
    THEN OrdinaryTxInfoStoreInto(StoreBits(b, Bits(0, 4)), v.info)
    ELSE TickTockTxInfoStoreInto(StoreBits(b, Bits(1, 3)), v.info)

\* a load that takes every odd tag part below 4 for a tick-tock info
IsTickTockTagLoose(tag_part) == tag_part \in {1, 3}

\* tag_part == 0b001
IsTickTockTag(tag_part) == tag_part = 1

\* impl Load for TxInfo
TxInfoLoadFrom(slice) ==
    LET tag_part == Val(TakeBits(slice, 3))
        s1 == SkipBits(slice, 3)
        ticktock == TickTockTxInfoLoadFrom(s1)
        ordinary == OrdinaryTxInfoLoadFrom(SkipBits(s1, 1))
    IN  IF ~HasBits(slice, 3) THEN Failed("CellUnderflow")
        ELSE IF IsTickTockTag(tag_part)
        THEN IF ticktock.ok THEN Loaded(TickTock(ticktock.value), ticktock.rest) ELSE ticktock
        ELSE IF tag_part = 0 /\ ~HasBits(s1, 1) THEN Failed("CellUnderflow")
        ELSE IF tag_part = 0 /\ s1.bits[1] = 0
        THEN IF ordinary.ok THEN Loaded(Ordinary(ordinary.value), ordinary.rest) ELSE ordinary
        ELSE Failed("InvalidTag")

\* the TxInfo values stored: every phase a different number, each optional
\* phase present and absent, every flag set and clear
OrdinaryTxInfos ==
    {[credit_first |-> cf, storage_phase |-> sp, credit_phase |-> cp, compute_phase |-> 3,
      action_phase |-> ap, aborted |-> ab, bounce_phase |-> bp, destroyed |-> ds] :
        cf \in BOOLEAN, sp \in {Absent, Some(1)}, cp \in {Absent, Some(2)},
        ap \in {Absent, Some(4)}, ab \in BOOLEAN, bp \in {Absent, Some(5)}, ds \in BOOLEAN}

TickTockTxInfos ==
    {[kind |-> k, storage_phase |-> 1, compute_phase |-> 3, action_phase |-> ap,
      aborted |-> ab, destroyed |-> ds] :
        k \in {"Tick", "Tock"}, ap \in {Absent, Some(4)}, ab \in BOOLEAN, ds \in BOOLEAN}

TxInfos == {Ordinary(i) : i \in OrdinaryTxInfos} \cup {TickTock(i) : i \in TickTockTxInfos}

\* the cells parsed as a TxInfo: each of the sixteen 4-bit prefixes before what
\* a stored info has after its tag
TxInfoBodies ==
    {OrdinaryTxInfoStoreInto(NoBits, i) : i \in {j \in OrdinaryTxInfos : ~j.action_phase.some /\ j.credit_first}}
    \cup {SkipBits(TickTockTxInfoStoreInto(NoBits, i), 1) :
            i \in {j \in TickTockTxInfos : ~j.action_phase.some /\ j.kind = "Tick"}}

TxInfoCells ==
    {[bits |-> Bits(t, 4) \o body.bits, refs |-> body.refs] : t \in 0 .. 15, body \in TxInfoBodies}

\* the most outgoing messages of a transaction stored
MaxOutMsgs == 2

\* Message: a message is a number of 8 bits in a cell of its own; a cell
\* without data is not a message
MessageCell(n) == StoreBits(NoBits, Bits(n, 8))

MessageLoadFrom(slice) ==
    IF ~HasBits(slice, 8) THEN Failed("CellUnderflow")
    ELSE Loaded(Val(TakeBits(slice, 8)), SkipBits(slice, 8))

\* CurrencyCollection: the tokens, a number of 8 bits, and the dictionary of
\* the other currencies
CurrencyCollectionStoreInto(b, c) ==
    OptionCellStoreInto(StoreBits(b, Bits(c.tokens, 8)), c.other)

CurrencyCollectionLoadFrom(slice) ==
    LET other == OptionCellLoadFrom(SkipBits(slice, 8))
    IN  IF ~HasBits(slice, 8) THEN Failed("CellUnderflow")
        ELSE IF ~other.ok THEN other
        ELSE Loaded([tokens |-> Val(TakeBits(slice, 8)), other |-> other.value],
                    other.rest)

\* Lazy<T>: the cell, referenced and not parsed; stored as a reference
LazyLoadFrom(slice) ==
    IF ~HasRef(slice) THEN Failed("CellUnderflow")
    ELSE Loaded(Head(slice.refs), SkipRef(slice))

\* Transaction::TAG
TransactionTag == 7

\* the cell of the messages that store_into builds: in_msg, then out_msgs
MessagesCell(tx) == OptionCellStoreInto(OptionCellStoreInto(NoBits, tx.in_msg), tx.out_msgs)

\* impl Store for Transaction
TransactionStoreInto(tx) ==
    LET messages == MessagesCell(tx)
        b1 == StoreBits(NoBits, Bits(TransactionTag, 4))
        b2 == StoreBits(b1, Bits(tx.account, 256))
        b3 == StoreBits(b2, Bits(tx.lt, 64))
        b4 == StoreBits(b3, Bits(tx.prev_trans_hash, 256))
        b5 == StoreBits(b4, Bits(tx.prev_trans_lt, 64))
        b6 == StoreBits(b5, Bits(tx.now, 32))
        b7 == StoreBits(b6, Bits(tx.out_msg_count, 15))
        b8 == StoreBits(b7, Bits(tx.orig_status, 2))
        b9 == StoreBits(b8, Bits(tx.end_status, 2))
        b10 == StoreRef(b9, messages)
        b11 == CurrencyCollectionStoreInto(b10, tx.total_fees)
        b12 == StoreRef(b11, tx.state_update)
    IN  StoreRef(b12, tx.info)

\* the block of load_from that reads the cell of the messages
MessagesLoadFrom(slice) ==
    LET in_msg == OptionCellLoadFrom(slice)
        out_msgs == OptionCellLoadFrom(in_msg.rest)
    IN  IF ~in_msg.ok THEN in_msg
        ELSE IF ~out_msgs.ok THEN out_msgs
        ELSE Loaded([in_msg |-> in_msg.value, out_msgs |-> out_msgs.value], out_msgs.rest)

\* the two statuses with the second taken for the first
StatusesSwapped(first, second) == [orig_status |-> second, end_status |-> first]

\* orig_status and end_status, in the order they are read
Statuses(first, second) == [orig_status |-> first, end_status |-> second]

\* impl Load for Transaction
TransactionLoadFrom(slice) ==
    LET s1 == SkipBits(slice, 4)
        messages == MessagesLoadFrom(Head(s1.refs))
        s2 == SkipRef(s1)
        s3 == SkipBits(s2, 256)
        s4 == SkipBits(s3, 64)
        s5 == SkipBits(s4, 256)
        s6 == SkipBits(s5, 64)
        s7 == SkipBits(s6, 32)
        s8 == SkipBits(s7, 15)
        s9 == SkipBits(s8, 4)
        statuses == Statuses(Val(TakeBits(s8, 2)), Val(SubSeq(s8.bits, 3, 4)))
        total_fees == CurrencyCollectionLoadFrom(s9)
        state_update == LazyLoadFrom(total_fees.rest)
        info == LazyLoadFrom(state_update.rest)
    IN  IF ~HasBits(slice, 4) THEN Failed("CellUnderflow")
        ELSE IF Val(TakeBits(slice, 4)) # TransactionTag THEN Failed("InvalidTag")
        ELSE IF ~HasRef(s1) THEN Failed("CellUnderflow")
        ELSE IF ~messages.ok THEN messages
        ELSE IF ~HasBits(s2, 256 + 64 + 256 + 64 + 32 + 15 + 2 + 2) THEN Failed("CellUnderflow")
        ELSE IF ~total_fees.ok THEN total_fees
        ELSE IF ~state_update.ok THEN state_update
        ELSE IF ~info.ok THEN info
        ELSE Loaded([account |-> Val(TakeBits(s2, 256)),
                     lt |-> Val(TakeBits(s3, 64)),
                     prev_trans_hash |-> Val(TakeBits(s4, 256)),
                     prev_trans_lt |-> Val(TakeBits(s5, 64)),
                     now |-> Val(TakeBits(s6, 32)),
                     out_msg_count |-> Val(TakeBits(s7, 15)),
                     orig_status |-> statuses.orig_status,
                     end_status |-> statuses.end_status,
                     in_msg |-> messages.value.in_msg,
                     out_msgs |-> messages.value.out_msgs,
                     total_fees |-> total_fees.value,
                     state_update |-> state_update.value,
                     info |-> info.value],
                    info.rest)

\* TxOutMsgIter::next until the iterator is finished: one item per value of
\* out_msgs, the message parsed from the cell the value refers to, and after
\* the first error nothing more
RECURSIVE OutMsgItems(_)
OutMsgItems(entries) ==
    IF entries = << >> THEN << >>
    ELSE LET value == SkipBits(Head(entries), 15)
             message == MessageLoadFrom(Head(value.refs))
         IN  IF ~HasRef(value) THEN <<Failed("CellUnderflow")>>
             ELSE IF ~message.ok THEN <<message>>
             ELSE <<message>> \o OutMsgItems(Tail(entries))

\* an iterator that stops after out_msg_count items
IterOutMsgsCounted(tx) ==
    LET items == OutMsgItems(DictEntries(tx.out_msgs))
    IN  SubSeq(items, 1, Min(tx.out_msg_count, Len(items)))

\* Transaction::iter_out_msgs, collected
IterOutMsgsOf(tx) == OutMsgItems(DictEntries(tx.out_msgs))

\* the dictionaries of outgoing messages stored: message i under key i - 1,
\* all of them messages, or the last of them a cell without data
OutMsgs(n, broken) ==
    DictOf([i \in 1 .. n |->
        DictEntry(Bits(i - 1, 15),
                  StoreRef(NoBits, IF broken /\ i = n THEN NoBits ELSE MessageCell(10 + i)))])

\* the Transaction values stored: every count with every dictionary
Transactions ==
    {[account |-> 5, lt |-> 6, prev_trans_hash |-> 7, prev_trans_lt |-> 8, now |-> 9,
      out_msg_count |-> c, orig_status |-> 1, end_status |-> 2,
      in_msg |-> m, out_msgs |-> o,
      total_fees |-> [tokens |-> 3, other |-> x],
      state_update |-> StoreBits(NoBits, Bits(114, 8)),
      info |-> TxInfoStoreInto(NoBits, TickTock([kind |-> "Tock", storage_phase |-> 1,
                  compute_phase |-> 3, action_phase |-> Absent, aborted |-> FALSE,
                  destroyed |-> FALSE]))] :
        c \in 0 .. MaxOutMsgs,
        m \in {NoCell, Some(MessageCell(4))},
        o \in {OutMsgs(n, broken) : n \in 0 .. MaxOutMsgs, broken \in BOOLEAN},
        x \in {NoCell, Some(DictRoot(<<DictEntry(Bits(1, 32), MessageCell(2))>>))}}

\* a cell with a bit more, and with a reference more
WithBit(cell) == StoreBits(cell, <<1>>)

WithRef(cell) == StoreRef(cell, NoBits)

\* the cells parsed as a Transaction: the stored transactions as they are,
\* with something after the last field of the cell or of the cell of its
\* messages, with another tag and without the last reference
TransactionCells ==
    LET stored == {TransactionStoreInto(tx) : tx \in Transactions}
    IN  stored
        \cup {WithBit(c) : c \in stored}
        \cup {WithRef(c) : c \in {k \in stored : Len(k.refs) < 4}}
        \cup {[c EXCEPT !.refs[1] = WithBit(@)] : c \in stored}
        \cup {[c EXCEPT !.refs[1] = WithRef(@)] : c \in stored}
        \cup {[c EXCEPT !.bits[1] = 1] : c \in stored}
        \cup {[c EXCEPT !.refs = SubSeq(@, 1, Len(@) - 1)] : c \in stored}

\* dict::RawValues: the entries left to walk, and whether the iterator is
\* finished
RawValues(dict) == [left |-> DictEntries(dict), finished |-> FALSE]

\* RawValues::finish that leaves the iterator as it is
InnerFinishNot(it) == it

\* RawValues::finish: the iterator is finished, next() returns None from now on
InnerFinish(it) == [it EXCEPT !.finished = TRUE]

\* Option<Result<..>>: no item
NoItem == [some |-> FALSE, value |-> Failed("None")]

\* RawValues::next: the value of the next entry, an error and the end when the
\* node of the entry cannot be read
RawValuesNext(it) ==
    IF it.finished \/ it.left = << >> THEN [next |-> NoItem, it |-> it]
    ELSE IF ~HasBits(Head(it.left), 15)
    THEN [next |-> Some(Failed("CellUnderflow")), it |-> InnerFinish(it)]
    ELSE [next |-> Some(Loaded(0, SkipBits(Head(it.left), 15))),
          it |-> [it EXCEPT !.left = Tail(@)]]

\* TxOutMsgIter::next
TxOutMsgIterNext(it) ==
    LET inner == RawValuesNext(it)
        value == inner.next.value.rest
        message == MessageLoadFrom(Head(value.refs))
    IN  IF ~inner.next.some THEN [next |-> NoItem, it |-> inner.it]
        ELSE IF ~inner.next.value.ok THEN [next |-> inner.next, it |-> inner.it]
        ELSE IF ~HasRef(value)
        THEN [next |-> Some(Failed("CellUnderflow")), it |-> InnerFinish(inner.it)]
        ELSE IF ~message.ok
        THEN [next |-> Some(message), it |-> InnerFinish(inner.it)]
        ELSE [next |-> Some(message), it |-> inner.it]

\* an entry of out_msgs under key i - 1: a message, a cell that is no message,
\* a value without a reference, a node too short for its key
OutMsgEntry(i, kind) ==
    CASE kind = "msg" -> DictEntry(Bits(i - 1, 15), StoreRef(NoBits, MessageCell(10 + i)))
      [] kind = "nomsg" -> DictEntry(Bits(i - 1, 15), StoreRef(NoBits, NoBits))
      [] kind = "noref" -> DictEntry(Bits(i - 1, 15), NoBits)
      [] kind = "badnode" -> StoreRef(StoreBits(NoBits, <<1>>), MessageCell(10 + i))

EntryKinds == {"msg", "nomsg", "noref", "badnode"}

\* the transactions iterated: one stored transaction with every dictionary of
\* at most MaxOutMsgs entries of these kinds
IterTransactions ==
    LET tx == CHOOSE t \in Transactions :
                  /\ t.out_msg_count = 0
                  /\ ~t.in_msg.some
                  /\ ~t.total_fees.other.some
                  /\ ~t.out_msgs.some
    IN  UNION {{[tx EXCEPT !.out_msgs = DictOf([i \in 1 .. n |-> OutMsgEntry(i, kinds[i])])] :
                    kinds \in [1 .. n -> EntryKinds]} : n \in 0 .. MaxOutMsgs}

\* enum WorkchainFormat
Basic(vm_version, vm_mode) ==
    [variant |-> "Basic", vm_version |-> vm_version, vm_mode |-> vm_mode]

Extended(min_addr_len, max_addr_len, addr_len_step, workchain_type_id) ==
    [variant |-> "Extended", min_addr_len |-> min_addr_len, max_addr_len |-> max_addr_len,
     addr_len_step |-> addr_len_step, workchain_type_id |-> workchain_type_id]

\* WorkchainFormat::is_valid and WorkchainFormatExtended::is_valid
WorkchainFormatIsValid(f) ==
    \/ f.variant = "Basic"
    \/ /\ f.min_addr_len >= 64
       /\ f.min_addr_len <= f.max_addr_len
       /\ f.max_addr_len <= 1023
       /\ f.addr_len_step <= 1023

\* impl Store for WorkchainFormat, a valid format
WorkchainFormatStoreInto(b, f) ==
    IF f.variant = "Basic"
    THEN StoreBits(StoreBits(StoreBits(b, Bits(1, 4)), Bits(f.vm_version, 32)), U64(f.vm_mode))
    ELSE StoreBits(StoreBits(StoreBits(StoreBits(StoreBits(b, Bits(0, 4)),
             Bits(f.min_addr_len, 12)), Bits(f.max_addr_len, 12)),
             Bits(f.addr_len_step, 12)), Bits(f.workchain_type_id, 32))

\* impl Load for WorkchainFormat; the extended format is validated as it is
\* loaded
WorkchainFormatLoadFrom(slice) ==
    LET tag == Val(TakeBits(slice, 4))
        s1 == SkipBits(slice, 4)
        basic == Basic(Val(TakeBits(s1, 32)), Val(SubSeq(s1.bits, 33, 96)))
        extended == Extended(Val(TakeBits(s1, 12)), Val(SubSeq(s1.bits, 13, 24)),
                             Val(SubSeq(s1.bits, 25, 36)), Val(SubSeq(s1.bits, 37, 68)))
    IN  IF ~HasBits(slice, 4) THEN Failed("CellUnderflow")
        ELSE IF tag = 1
        THEN IF ~HasBits(s1, 96) THEN Failed("CellUnderflow")
             ELSE Loaded(basic, SkipBits(s1, 96))
        ELSE IF tag = 0
        THEN IF ~HasBits(s1, 68) THEN Failed("CellUnderflow")
             ELSE IF extended.workchain_type_id = 0 \/ ~WorkchainFormatIsValid(extended)
             THEN Failed("InvalidData")
             ELSE Loaded(extended, SkipBits(s1, 68))
        ELSE Failed("InvalidTag")

\* a check that passes every description
IsValidAlways(d) == TRUE

\* WorkchainDescription::is_valid, ShardIdent::MAX_SPLIT_DEPTH being 60
IsValid(d) ==
    /\ d.min_split <= d.max_split
    /\ d.max_split <= 60
    /\ WorkchainFormatIsValid(d.format)

\* the stores of store_into, after its check
WorkchainDescriptionWrite(b, d) ==
    LET flags == 32768 * Bit(d.format.variant = "Basic") + 16384 * Bit(d.active)
                 + 8192 * Bit(d.accept_msgs)
        b1 == StoreBits(b, Bits(166, 8))
        b2 == StoreBits(b1, Bits(d.enabled_since, 32))
        b3 == StoreBits(b2, Bits(d.actual_min_split, 8))
        b4 == StoreBits(b3, Bits(d.min_split, 8))
        b5 == StoreBits(b4, Bits(d.max_split, 8))
        b6 == StoreBits(b5, Bits(flags, 16))
        b7 == StoreBits(b6, Bits(d.zerostate_root_hash, 256))
        b8 == StoreBits(b7, Bits(d.zerostate_file_hash, 256))
        b9 == StoreBits(b8, Bits(d.version, 32))
    IN  WorkchainFormatStoreInto(b9, d.format)

\* impl Store for WorkchainDescription: the result, and the builder after it
WorkchainDescriptionStoreInto(b, d) ==
    IF ~IsValid(d) THEN [ok |-> FALSE, err |-> "InvalidData", rest |-> b]
    ELSE Loaded(0, WorkchainDescriptionWrite(b, d))

\* impl Load for WorkchainDescription
WorkchainDescriptionLoadFrom(slice) ==
    LET s1 == SkipBits(slice, 8)
        s2 == SkipBits(s1, 32)
        s3 == SkipBits(s2, 8)
        s4 == SkipBits(s3, 8)
        s5 == SkipBits(s4, 8)
        s6 == SkipBits(s5, 16)
        s7 == SkipBits(s6, 256)
        s8 == SkipBits(s7, 256)
        s9 == SkipBits(s8, 32)
        flags == TakeBits(s5, 16)
        format == WorkchainFormatLoadFrom(s9)
    IN  IF ~HasBits(slice, 8) THEN Failed("CellUnderflow")
        ELSE IF Val(TakeBits(slice, 8)) # 166 THEN Failed("InvalidTag")
        ELSE IF ~HasBits(s1, 32 + 8 + 8 + 8 + 16) THEN Failed("CellUnderflow")
        ELSE IF \E i \in 4 .. 16 : flags[i] # 0 THEN Failed("InvalidData")
        ELSE IF ~HasBits(s6, 256 + 256 + 32) THEN Failed("CellUnderflow")
        ELSE IF ~format.ok THEN format
        ELSE IF (flags[1] = 1) # (format.value.variant = "Basic") THEN Failed("InvalidData")
        ELSE Loaded([enabled_since |-> Val(TakeBits(s1, 32)),
                     actual_min_split |-> Val(TakeBits(s2, 8)),
                     min_split |-> Val(TakeBits(s3, 8)),
                     max_split |-> Val(TakeBits(s4, 8)),
                     active |-> flags[2] = 1,
                     accept_msgs |-> flags[3] = 1,
                     zerostate_root_hash |-> Val(TakeBits(s6, 256)),
                     zerostate_file_hash |-> Val(TakeBits(s7, 256)),
                     version |-> Val(TakeBits(s8, 32)),
                     format |-> format.value],
                    format.rest)

\* the WorkchainDescription values stored: splits in and out of order and past
\* the maximum depth, the formats basic, extended and extended with its address
\* lengths out of order
WorkchainDescriptions ==
    {[enabled_since |-> 1, actual_min_split |-> 0, min_split |-> lo, max_split |-> hi,
      active |-> a, accept_msgs |-> m, zerostate_root_hash |-> 5, zerostate_file_hash |-> 6,
      version |-> 7, format |-> f] :
        lo \in {0, 2, 61}, hi \in {1, 60, 61}, a \in BOOLEAN, m \in BOOLEAN,
        f \in {Basic(1, 2), Extended(64, 128, 8, 1), Extended(128, 64, 8, 1)}}

\* the cells parsed as a WorkchainDescription: the fields of the descriptions
\* whose format is valid, as store_into lays them out, and these cells with a
\* low bit of the flags set
WorkchainCells ==
    LET cells == {WorkchainDescriptionWrite(NoBits, d) :
                      d \in {w \in WorkchainDescriptions : WorkchainFormatIsValid(w.format)}}
    IN  cells \cup {[c EXCEPT !.bits[80] = 1] : c \in cells}

\* the builders stored into: a new one, and one that holds bits and a reference
Builders == {NoBits, StoreRef(StoreBits(NoBits, <<1, 0, 1>>), MessageCell(1))}

MaxFlatPrefixes == 2

TagBase == 221
TagExt == 222
TagFlatPfx == 209

\* no tag is the tag of a flat prefix
IsFlatPfxNever(tag) == FALSE

\* the arm Ok(Self::TAG_FLAT_PFX) of the match
IsFlatPfx(tag) == tag = TagFlatPfx

\* GasLimitsPrices::default()
GasDefault ==
    [flat_gas_limit |-> U64(0), flat_gas_price |-> U64(0), gas_price |-> U64(0),
     gas_limit |-> U64(0), special_gas_limit |-> U64(0), gas_credit |-> U64(0),
     block_gas_limit |-> U64(0), freeze_due_limit |-> U64(0), delete_due_limit |-> U64(0)]

\* one iteration of the loop of GasLimitsPrices::load_from: the tag it read
\* (-1 for none), whether it left the loop, the error it left with, the slice and
\* the result after it
GasLimitsPricesIteration(slice, result) ==
    LET tag == Val(TakeBits(slice, 8))
        s1 == SkipBits(slice, 8)
        field(i) == SubSeq(s1.bits, 64 * (i - 1) + 1, 64 * i)
        short(n) == ~HasBits(s1, 64 * n)
        underflow(n) ==
            [done |-> TRUE, tag |-> tag, err |-> "CellUnderflow",
             slice |-> SkipBits(s1, 64 * (Len(s1.bits) \div 64)), result |-> result]
    IN  IF ~HasBits(slice, 8)
        THEN [done |-> TRUE, tag |-> -1, err |-> "CellUnderflow", slice |-> slice,
              result |-> result]
        ELSE IF IsFlatPfx(tag)
        THEN IF short(2) THEN underflow(2)
             ELSE [done |-> FALSE, tag |-> tag, err |-> "", slice |-> SkipBits(s1, 128),
                   result |-> [result EXCEPT !.flat_gas_limit = field(1),
                                             !.flat_gas_price = field(2)]]
        ELSE IF tag = TagExt
        THEN IF short(7) THEN underflow(7)
             ELSE [done |-> TRUE, tag |-> tag, err |-> "", slice |-> SkipBits(s1, 448),
                   result |-> [result EXCEPT !.gas_price = field(1), !.gas_limit = field(2),
                                             !.special_gas_limit = field(3),
                                             !.gas_credit = field(4),
                                             !.block_gas_limit = field(5),
                                             !.freeze_due_limit = field(6),
                                             !.delete_due_limit = field(7)]]
        ELSE IF tag = TagBase
        THEN IF short(6) THEN underflow(6)
             ELSE [done |-> TRUE, tag |-> tag, err |-> "", slice |-> SkipBits(s1, 384),
                   result |-> [result EXCEPT !.gas_price = field(1), !.gas_limit = field(2),
                                             !.gas_credit = field(3),
                                             !.block_gas_limit = field(4),
                                             !.freeze_due_limit = field(5),
                                             !.delete_due_limit = field(6)]]
        ELSE [done |-> TRUE, tag |-> tag, err |-> "InvalidTag", slice |-> s1,
              result |-> result]

\* the bits of n fields after a tag
RECURSIVE GasFields(_, _)
GasFields(tag, n) == IF n = 0 THEN Bits(tag, 8) ELSE GasFields(tag, n - 1) \o U64(n)

\* the bits of a sequence of flat prefixes, each its limit and its price
RECURSIVE GasFlats(_)
GasFlats(flats) ==
    IF flats = << >> THEN << >>
    ELSE Bits(TagFlatPfx, 8) \o U64(Head(flats)[1]) \o U64(Head(flats)[2])
         \o GasFlats(Tail(flats))

\* the bits that follow the flat prefixes of a cell
GasEnd(end) ==
    CASE end = "ext" -> GasFields(TagExt, 7)
      [] end = "base" -> GasFields(TagBase, 6)
      [] end = "bad" -> GasFields(255, 1)
      [] end = "none" -> << >>
      [] end = "half" -> <<1, 1, 0, 1>>
      [] end = "short" -> GasFields(TagExt, 3)
      [] end = "flatshort" -> GasFields(TagFlatPfx, 1)

\* the cells loaded as GasLimitsPrices: up to MaxFlatPrefixes flat prefixes and
\* an end
GasCells ==
    {Input("GasCell", [cell |-> [bits |-> GasFlats(flats) \o GasEnd(end), refs |-> << >>],
                       flats |-> flats, end |-> end]) :
        flats \in UNION {[1 .. n -> {<<1, 2>>, <<3, 4>>}] : n \in 0 .. MaxFlatPrefixes},
        end \in {"ext", "base", "bad", "none", "half", "short", "flatshort"}}

(***************************************************************************)
(* util.rs: ArrayVec<T, N>                                                 *)
(***************************************************************************)

\* the const parameter N of ArrayVec, and the vectors of a behaviour
N == 2
MaxVecs == 2

\* a slot of MaybeUninit<T> that holds no item
Uninit == 0

\* the items pushed
Items == {1, 2}

\* ArrayVec::default(): with the slots of the vector, who owns its items ("vec",
\* "caller" after into_inner, "dropped" after Drop), how often the vector has
\* dropped each slot, and the items pushed so far
Default ==
    [inner |-> [i \in 1 .. N |-> Uninit], len |-> 0, owner |-> "vec",
     drops |-> [i \in 1 .. N |-> 0], pushed |-> << >>]

\* ArrayVec::push, its precondition len < N being met
Push(v, item) ==
    [v EXCEPT !.inner[v.len + 1] = item, !.len = (v.len + 1) % 256,
              !.pushed = Append(v.pushed, item)]

\* ArrayVec::as_ref: the first len slots
AsRef(v) == [i \in 1 .. v.len |-> v.inner[i]]

\* ArrayVec::clone: the items of as_ref(), pushed to a default vector
RECURSIVE CloneInto(_, _)
CloneInto(res, items) ==
    IF items = << >> THEN res ELSE CloneInto(Push(res, Head(items)), Tail(items))

Clone(v) == CloneInto(Default, AsRef(v))

\* ArrayVec::drop: drop_in_place of the first len slots
Drop(v) ==
    [v EXCEPT !.owner = "dropped",
              !.drops = [i \in 1 .. N |-> IF i <= v.len THEN v.drops[i] + 1 ELSE v.drops[i]]]

\* into_inner without ManuallyDrop: the vector is dropped as it goes out of scope
IntoInnerDropped(v) == [Drop(v) EXCEPT !.owner = "caller"]

\* ArrayVec::into_inner: the array is read out of a ManuallyDrop, and the
\* caller owns its items
IntoInner(v) == [v EXCEPT !.owner = "caller"]

(***************************************************************************)
(* sync.rs: the allocation of a finalized cell                             *)
(***************************************************************************)

\* CellDescriptor::byte_len: d2 is (b / 8) * 2 + (b % 8 # 0) for b bits
ByteLen(d2) == (d2 \div 2) + (d2 % 2)

\* PrunedBranchHeader::cell_data_len: the tag, the mask and a hash and a depth
\* per level
CellDataLen(level) == 2 + level * (32 + 2)

\* a count of hashes that keeps a pair per level for every type of cell
HashCountPerLevel(cell_type, level) == level + 1

\* the pairs compute_hashes returns: one for a pruned branch, else one per level
HashCount(cell_type, level) == IF cell_type = "PrunedBranch" THEN 1 ELSE level + 1

\* CellParts::compute_hashes, as far as it accepts the parts: the number of
\* pairs it returns, 0 for an error.  The children of the parts are of level 0.
ComputeHashesLen(ctx) ==
    LET cell_type == CellTypeOf(ctx.d1, ctx.data)
        mask == LevelMaskOf(ctx.d1)
        level == MaskLevel(mask)
        exotic(byte_len) ==
            /\ ByteLen(ctx.d2) = byte_len
            /\ Len(ctx.data) = byte_len
        ok ==
            /\ ctx.bit_len <= 1023
            /\ ByteLen(ctx.d2) = (ctx.bit_len + 7) \div 8
            /\ RefCountOf(ctx.d1) = ctx.references
            /\ CASE cell_type = "PrunedBranch" ->
                        /\ level \in 1 .. 3
                        /\ exotic(2 + level * 34)
                        /\ ctx.data[2] = mask
                        /\ ctx.references = 0
                 [] cell_type = "LibraryReference" ->
                        /\ exotic(33)
                        /\ mask = 0
                        /\ ctx.references = 0
                 [] cell_type = "Merkle" ->
                        /\ ctx.data # << >>
                        /\ \/ ctx.data[1] = 3 /\ exotic(35) /\ ctx.references = 1
                           \/ ctx.data[1] = 4 /\ exotic(69) /\ ctx.references = 2
                        /\ mask = 0
                 [] OTHER -> mask = 0
    IN  IF ok THEN HashCount(cell_type, level) ELSE 0

\* usize::next_power_of_two
RECURSIVE NextPowerOfTwo(_)
NextPowerOfTwo(x) == IF x <= 1 THEN 1 ELSE 2 * NextPowerOfTwo((x + 1) \div 2)

\* usize::trailing_zeros of a number that is not 0
RECURSIVE TrailingZeros(_)
TrailingZeros(x) == IF x % 2 = 1 THEN 0 ELSE 1 + TrailingZeros(x \div 2)

\* VTABLES of make_ordinary_cell: the N of OrdinaryCell<N> at each index
VTABLES == <<0, 8, 8, 8, 8, 16, 32, 64, 128>>

\* a length that is not raised to 8
ClampNone(raw_data_len) == raw_data_len

\* `std::cmp::max(raw_data_len, 8)`
Clamp(raw_data_len) == Max(raw_data_len, 8)

\* make_ordinary_cell: the target length, the index into VTABLES (from 0) and
\* the N of the vtable there
MakeOrdinaryCell(raw_data_len) ==
    LET len == NextPowerOfTwo(Clamp(raw_data_len))
        index == IF raw_data_len = 0 THEN 0 ELSE 1 + TrailingZeros(len)
    IN  [target_data_len |-> IF raw_data_len = 0 THEN 0 ELSE len,
         index |-> index,
         vtable |-> VTABLES[index + 1]]

\* the debug checks of make_pruned_branch that fail
MakePrunedBranchChecks(level, descriptor, data) ==
    LET data_len == CellDataLen(level)
    IN  (IF level \in 1 .. 3 THEN {} ELSE {"(1..=3).contains(&header.level)"})
        \cup (IF data_len = Len(data) THEN {} ELSE {"data_len == data.len()"})
        \cup (IF data_len = ByteLen(descriptor) THEN {}
              ELSE {"data_len == header.descriptor.byte_len()"})

\* the debug checks that fail as make_cell allocates the cell of parts with this
\* many pairs
MakeCellChecks(ctx, hashes_len) ==
    LET cell_type == CellTypeOf(ctx.d1, ctx.data)
        one == IF hashes_len = 1 THEN {} ELSE {"hashes.len() == 1"}
    IN  IF cell_type = "PrunedBranch"
        THEN one \cup MakePrunedBranchChecks(MaskLevel(LevelMaskOf(ctx.d1)), ctx.d2, ctx.data)
        ELSE IF cell_type = "LibraryReference"
        THEN one
             \cup (IF ByteLen(ctx.d2) = 33 THEN {} ELSE {"ctx.descriptor.byte_len() == 33"})
             \cup (IF Len(ctx.data) = 33 THEN {} ELSE {"ctx.data.len() == 33"})
        ELSE IF cell_type = "Ordinary" /\ IsEmptyDescriptor(ctx.d1, ctx.d2) THEN {}
        ELSE (IF Len(ctx.data) <= 128 THEN {} ELSE {"raw_data_len <= 128"})
             \cup (IF Len(ctx.data) <= MakeOrdinaryCell(Len(ctx.data)).target_data_len THEN {}
                   ELSE {"raw_data_len <= target_data_len"})

\* the CellParts finalized: data of at most 128 bytes that starts with the byte
\* of a type and the byte of a mask, a descriptor for the length of the data or
\* for another, a bit length of that descriptor or past 1023 bits
CellPartsInputs ==
    LET bytes(first, second, len) ==
            [i \in 1 .. len |-> IF i = 1 THEN first ELSE IF i = 2 THEN second ELSE 0]
    IN  {Input("CellParts",
               [d1 |-> references + 8 * exotic + 32 * mask,
                d2 |-> 2 * byte_len,
                bit_len |-> IF long THEN 1024 ELSE 8 * byte_len,
                data |-> bytes(first, stored, len),
                references |-> references]) :
            exotic \in {0, 1}, mask \in {0, 1, 2, 3, 7}, first \in {1, 2, 3, 171},
            stored \in {1, 7}, len \in {0, 2, 33, 35, 36, 70, 104, 128},
            byte_len \in {33, 36, 70, 104, 128}, references \in {0, 1}, long \in BOOLEAN}

\* the payload lengths make_ordinary_cell is called with
PayloadInputs == {Input("Payload", n) : n \in 0 .. 128}

\* the values put under the codecs
CodecInputs ==
    {Input("ConsensusConfig", c) : c \in ConsensusConfigs}
        \cup {Input("ValidatorDescription", d) : d \in ValidatorDescriptions}
        \cup {Input("ValidatorSet", v) : v \in ValidatorSets}
        \cup {Input("TxInfo", v) : v \in TxInfos}
        \cup {Input("Transaction", tx) : tx \in Transactions}
        \cup {Input("TxInfoCell", c) : c \in TxInfoCells}
        \cup {Input("TransactionCell", c) : c \in TransactionCells}
        \cup {Input("IterTransaction", tx) : tx \in IterTransactions}
        \cup {Input("ValidatorSetCell", c) : c \in ValidatorSetCells}
        \cup {Input("WorkchainDescription", d) : d \in WorkchainDescriptions}
        \cup {Input("WorkchainCell", c) : c \in WorkchainCells}
        \cup {Input("WorkchainBuilder", [builder |-> b, value |-> d]) :
                 b \in Builders, d \in WorkchainDescriptions}

\* the types whose values are stored, and those of the cells parsed
StoredTypes ==
    {"ConsensusConfig", "ValidatorDescription", "ValidatorSet", "TxInfo", "Transaction",
     "WorkchainDescription"}

\* Store::store_into of a value of the type, into a new builder
StoreInto(type, value) ==
    CASE type = "ConsensusConfig" -> Loaded(0, ConsensusConfigStoreInto(value))
      [] type = "ValidatorDescription" -> Loaded(0, ValidatorDescriptionStoreInto(NoBits, value))
      [] type = "ValidatorSet" -> ValidatorSetStoreInto(value)
      [] type = "TxInfo" -> Loaded(0, TxInfoStoreInto(NoBits, value))
      [] type = "Transaction" -> Loaded(0, TransactionStoreInto(value))
      [] type = "WorkchainDescription" -> WorkchainDescriptionStoreInto(NoBits, value)

\* Load::load_from of the type, from the slice of a cell
LoadFrom(type, cell, overflow_checks) ==
    CASE type = "ConsensusConfig" -> ConsensusConfigLoadFrom(cell)
      [] type = "ValidatorDescription" -> ValidatorDescriptionLoadFrom(cell)
      [] type \in {"ValidatorSet", "ValidatorSetCell"} ->
            ValidatorSetLoadFrom(cell, overflow_checks)
      [] type \in {"TxInfo", "TxInfoCell"} -> TxInfoLoadFrom(cell)
      [] type \in {"Transaction", "TransactionCell"} -> TransactionLoadFrom(cell)
      [] type \in {"WorkchainDescription", "WorkchainCell"} -> WorkchainDescriptionLoadFrom(cell)

\* CellBuilder::build_from(value)
StoreValue ==
    /\ obj.type \in StoredTypes
    /\ reg.op = "none"
    /\ LET stored == StoreInto(obj.type, obj.value)
       IN  reg' = IF stored.ok THEN CodecCall("store", stored.rest, Loaded(0, NoBits))
                  ELSE CodecCall("failed", NoBits, stored)
    /\ UNCHANGED <<treevars, heap, obj>>

\* cell.parse::<T>() of the cell stored
LoadValue ==
    /\ obj.type \in StoredTypes
    /\ reg.op = "store"
    /\ \E overflow_checks \in BOOLEAN :
           reg' = CodecCall("load", reg.cell, LoadFrom(obj.type, reg.cell, overflow_checks))
    /\ UNCHANGED <<treevars, heap, obj>>

\* cell.parse::<T>() of a cell as it is
ParseCell ==
    /\ obj.type \in {"TxInfoCell", "TransactionCell", "ValidatorSetCell", "WorkchainCell"}
    /\ reg.op = "none"
    /\ \E overflow_checks \in BOOLEAN :
           reg' = CodecCall("parse", obj.value, LoadFrom(obj.type, obj.value, overflow_checks))
    /\ UNCHANGED <<treevars, heap, obj>>

\* CellBuilder::build_from(tx) of the transaction parsed
RestoreTransaction ==
    /\ obj.type = "TransactionCell"
    /\ reg.op = "parse"
    /\ reg.ret.ok
    /\ reg' = CodecCall("restore", TransactionStoreInto(reg.ret.value), reg.ret)
    /\ UNCHANGED <<treevars, heap, obj>>

\* tx.iter_out_msgs() run to its end
IterOutMsgs ==
    /\ obj.type = "Transaction"
    /\ reg.op = "none"
    /\ reg' = CodecCall("iter", NoBits, IterOutMsgsOf(obj.value))
    /\ UNCHANGED <<treevars, heap, obj>>

\* value.store_into(builder) of the description parsed, into a new builder
RestoreWorkchain ==
    /\ obj.type = "WorkchainCell"
    /\ reg.op = "parse"
    /\ reg.ret.ok
    /\ LET stored == WorkchainDescriptionStoreInto(NoBits, reg.ret.value)
       IN  reg' = CodecCall("restore", stored.rest, stored)
    /\ UNCHANGED <<treevars, heap, obj>>

\* value.store_into(builder) of a description, into a builder in use
StoreIntoBuilder ==
    /\ obj.type = "WorkchainBuilder"
    /\ reg.op = "none"
    /\ LET stored == WorkchainDescriptionStoreInto(obj.value.builder, obj.value.value)
       IN  reg' = CodecCall("store_into", stored.rest, stored)
    /\ UNCHANGED <<treevars, heap, obj>>

\* tx.iter_out_msgs()
IterStart ==
    /\ obj.type = "IterTransaction"
    /\ reg.op = "none"
    /\ reg' = CodecCall("next", NoBits, [it |-> RawValues(obj.value.out_msgs), yielded |-> << >>])
    /\ UNCHANGED <<treevars, heap, obj>>

\* a call of next() on the iterator, also after it has ended
IterNext ==
    /\ obj.type = "IterTransaction"
    /\ reg.op = "next"
    /\ Len(reg.ret.yielded) < MaxOutMsgs + 2
    /\ LET r == TxOutMsgIterNext(reg.ret.it)
       IN  reg' = CodecCall("next", NoBits,
                            [it |-> r.it, yielded |-> Append(reg.ret.yielded, r.next)])
    /\ UNCHANGED <<treevars, heap, obj>>

InitCodec ==
    /\ InitTree
    /\ profile = "sync"
    /\ mode = "OnLoad"
    /\ heap = << >>
    /\ obj \in CodecInputs
    /\ reg = NoReg

NextCodec ==
    \/ StoreValue
    \/ LoadValue
    \/ ParseCell
    \/ RestoreTransaction
    \/ IterOutMsgs
    \/ IterStart
    \/ IterNext
    \/ RestoreWorkchain
    \/ StoreIntoBuilder

SpecCodec == InitCodec /\ [][NextCodec]_vars


(***************************************************************************)
(* GasLimitsPrices::load_from, an iteration of its loop at a time          *)
(***************************************************************************)

\* the state of the loop after an iteration
GasLoop(it, iterations) ==
    [op |-> IF it.done THEN "gas_done" ELSE "gas_loop",
     cell |-> it.slice,
     ret |-> [ok |-> it.done /\ it.err = "", err |-> it.err, value |-> it.result,
              tag |-> it.tag, iterations |-> iterations]]

\* GasLimitsPrices::load_from(slice), up to the loop
GasLoadFrom ==
    /\ obj.type = "GasCell"
    /\ reg.op = "none"
    /\ reg' = GasLoop([done |-> FALSE, tag |-> -1, err |-> "", slice |-> obj.value.cell,
                       result |-> GasDefault], 0)
    /\ UNCHANGED <<treevars, heap, obj>>

\* an iteration of the loop
GasLoopIteration ==
    /\ reg.op = "gas_loop"
    /\ reg' = GasLoop(GasLimitsPricesIteration(reg.cell, reg.ret.value),
                      reg.ret.iterations + 1)
    /\ UNCHANGED <<treevars, heap, obj>>

InitGas ==
    /\ InitTree
    /\ profile = "sync"
    /\ mode = "OnLoad"
    /\ heap = << >>
    /\ obj \in GasCells
    /\ reg = NoReg

NextGas ==
    \/ GasLoadFrom
    \/ GasLoopIteration

\* the loop is straight-line code of one thread: an iteration that can run, runs
SpecGas == InitGas /\ [][NextGas]_vars /\ WF_vars(NextGas)

(***************************************************************************)
(* ArrayVec: the calls made on the vectors of a behaviour                  *)
(***************************************************************************)

\* a call on the vector at an index
VecCall(op, i, vecs) ==
    /\ obj' = Input("ArrayVec", vecs)
    /\ reg' = [op |-> op, vec |-> i]
    /\ UNCHANGED <<treevars, heap>>

\* vec.push(item), with len < N
VecPush ==
    \E i \in 1 .. Len(obj.value), item \in Items :
        /\ obj.value[i].owner = "vec"
        /\ obj.value[i].len < N
        /\ VecCall("push", i, [obj.value EXCEPT ![i] = Push(@, item)])

\* vec.clone()
VecClone ==
    \E i \in 1 .. Len(obj.value) :
        /\ obj.value[i].owner = "vec"
        /\ Len(obj.value) < MaxVecs
        /\ VecCall("clone", i, Append(obj.value, Clone(obj.value[i])))

\* the vector goes out of scope
VecDrop ==
    \E i \in 1 .. Len(obj.value) :
        /\ obj.value[i].owner = "vec"
        /\ VecCall("drop", i, [obj.value EXCEPT ![i] = Drop(@)])

\* vec.into_inner()
VecIntoInner ==
    \E i \in 1 .. Len(obj.value) :
        /\ obj.value[i].owner = "vec"
        /\ VecCall("into_inner", i, [obj.value EXCEPT ![i] = IntoInner(@)])

InitVec ==
    /\ InitTree
    /\ profile = "sync"
    /\ mode = "OnLoad"
    /\ heap = << >>
    /\ obj = Input("ArrayVec", <<Default>>)
    /\ reg = NoReg

NextVec ==
    \/ VecPush
    \/ VecClone
    \/ VecDrop
    \/ VecIntoInner

SpecVec == InitVec /\ [][NextVec]_vars

(***************************************************************************)
(* the allocation of cells                                                 *)
(***************************************************************************)

\* ArcCellFinalizer::finalize_cell: the number of pairs of compute_hashes and
\* the debug checks that failed in make_cell
FinalizeParts ==
    /\ obj.type = "CellParts"
    /\ reg.op = "none"
    /\ LET hashes_len == ComputeHashesLen(obj.value)
       IN  reg' = [op |-> "finalize_cell",
                   ret |-> [ok |-> hashes_len # 0, hashes_len |-> hashes_len,
                            failed |-> IF hashes_len = 0 THEN {}
                                       ELSE MakeCellChecks(obj.value, hashes_len)]]
    /\ UNCHANGED <<treevars, heap, obj>>

\* make_ordinary_cell(header, data)
MakeOrdinary ==
    /\ obj.type = "Payload"
    /\ reg.op = "none"
    /\ reg' = [op |-> "make_ordinary_cell", ret |-> MakeOrdinaryCell(obj.value)]
    /\ UNCHANGED <<treevars, heap, obj>>

InitAlloc ==
    /\ InitTree
    /\ profile = "sync"
    /\ mode = "OnLoad"
    /\ heap = << >>
    /\ \/ obj \in CellPartsInputs
       \/ obj \in PayloadInputs
    /\ reg = NoReg

NextAlloc ==
    \/ FinalizeParts
    \/ MakeOrdinary

SpecAlloc == InitAlloc /\ [][NextAlloc]_vars

(***************************************************************************)
(* the life of a usage tree: every call of the single caller, the          *)
(* conversion included; obj keeps the usage cells the conversion found     *)
(***************************************************************************)

\* UsageTree::with_subtrees, the usage cells made before it noted
WithSubtreesOver ==
    /\ WithSubtreesState
    /\ obj' = UIds
    /\ UNCHANGED <<heap, reg>>

InitLife ==
    /\ InitTree
    /\ profile = "sync"
    /\ heap = << >>
    /\ obj = {}
    /\ reg = NoReg

NextLife ==
    \/ \E c \in {1, 2} : Track(c)
    \/ \E u \in UIds : Data(u)
    \/ \E u \in UIds : Reference(u, 0)
    \/ WithSubtreesOver
    \/ AddSubtree(1)

SpecLife == InitLife /\ [][NextLife]_vars
---------------------------------------------------------------------------
(* Properties *)

\* the plain cell found from the tracked cell of u along the path of u
RECURSIVE PlainAt(_)
PlainAt(u) ==
    IF Len(u) <= 2 THEN u[1]
    ELSE CellReference(PlainAt(SubSeq(u, 1, Len(u) - 1)), u[Len(u)])

\* C1: the entry of hash h exists iff insert was called for h; its flag is the
\* OR over those calls of (ctx = mode); contains(h) returns that flag, and
\* false without an entry; the calls made for other hashes do not matter
C1_IncludedIsOrOfInserts ==
    TreeAlive =>
        \A h \in Hashes :
            /\ visited[h].present <=> (\E ctx \in Modes : <<h, ctx>> \in inserts)
            /\ visited[h].present =>
                   /\ visited[h].include <=> (<<h, mode>> \in inserts)
                   /\ ReprHash(visited[h].cell) = h
            /\ Contains(h) <=> (<<h, mode>> \in inserts)

C1_Witness ==
    /\ TreeAlive
    /\ \E h \in Hashes :
          /\ <<h, "OnLoad">> \in inserts
          /\ <<h, "OnDataAccess">> \in inserts
          /\ Contains(h)
          /\ \E g \in Hashes \ {h} : visited[g].present /\ ~Contains(g)
    /\ \E g \in Hashes : ~visited[g].present

\* C2: in OnDataAccess mode, after reference(i) or reference_cloned(i) on a
\* usage cell of a living tree, contains(repr hash of that cell) is true
C2_ReferenceRecordsCell ==
    (mode = "OnDataAccess" /\ TreeAlive /\ last.op = "reference")
        => Contains(ReprHash(ucells[last.u].cell))

\* C3: in OnDataAccess mode, contains(h) is true exactly when data() was called,
\* while the tree lived, on a usage cell wrapping a cell of hash h; track and
\* the resolution of references leave it false
C3_OnDataAccessIffDataRead ==
    (mode = "OnDataAccess" /\ TreeAlive) =>
        \A h \in Hashes : Contains(h) <=> (<<"data", h>> \in accessed)

C3_Witness ==
    /\ mode = "OnDataAccess"
    /\ TreeAlive
    /\ \E u \in UIds :
          /\ Len(u) = 4
          /\ Contains(UHash(u, 0))
          /\ ~Contains(UHash(SubSeq(u, 1, 2), 0))
          /\ ~Contains(UHash(SubSeq(u, 1, 3), 0))

\* C4: in OnLoad mode, contains(h) is true exactly for the hashes of the cells
\* passed to track or first resolved as a child while the tree lived
C4_OnLoadIffExposed ==
    (mode = "OnLoad" /\ TreeAlive) =>
        \A h \in Hashes :
            Contains(h) <=> (<<"track", h>> \in accessed \/ <<"resolve", h>> \in accessed)

C4_Witness ==
    /\ mode = "OnLoad"
    /\ TreeAlive
    /\ \E u \in UIds :
          /\ Len(u) = 4
          /\ Contains(UHash(u, 0))
          /\ <<"track", UHash(u, 0)>> \notin accessed
          /\ <<"data", UHash(u, 0)>> \notin accessed

\* C5: a child slot of a usage cell is written at most once and keeps what it
\* holds from then on, every call of reference for the slot returns the one
\* child wrapper, and the child is inserted at most once per slot, also when
\* threads race for the first access of the slot
C5_SlotFilledOnce ==
    /\ [](\A k \in DOMAIN slotlog :
             slotlog[k].writes <= 1 /\ slotlog[k].inserts <= 1)
    /\ [](\A u \in UIds : \A index \in Slots :
             SlotFilled(u, index) <=> <<u, index>> \in DOMAIN slotlog)
    /\ [](last.op = "reference" /\ last.ret # None =>
             /\ last.ret = Child(last.u, last.i)
             /\ ucells[last.u].children[last.i] = "some"
             /\ last.ret \in UIds)
    /\ [][\A u \in UIds : \A index \in Slots :
             SlotFilled(u, index) =>
                 /\ ucells'[u].children[index] = ucells[u].children[index]
                 /\ ucells[u].children[index] = "some" =>
                        ucells'[Child(u, index)].cell = ucells[Child(u, index)].cell]_vars

C5_Witness ==
    \E t1 \in Threads, t2 \in Threads :
        /\ t1 # t2
        /\ thr[t1].op = "reference" /\ thr[t1].pc = "store"
        /\ thr[t2].op = "reference" /\ thr[t2].pc = "once"
        /\ thr[t1].u = thr[t2].u /\ thr[t1].i = thr[t2].i
        /\ SlotBusy(thr[t1].u, thr[t1].i)

\* what a call of data, reference or reference_cloned returned is what the
\* plain cell at the same place returns, a child being wrapped
TransparentCall ==
    /\ last.op = "data" => last.ret = CellData[PlainAt(last.u)]
    /\ last.op = "reference" =>
           LET child == CellReference(PlainAt(last.u), last.i)
           IN  /\ (last.ret # None) <=> (last.i < 4 /\ child # 0)
               /\ last.ret # None =>
                      /\ last.ret \in UIds
                      /\ last.ret = Child(last.u, last.i)
                      /\ ucells[last.ret].cell = child

\* the getters of a usage cell return what the plain cell at its place returns
TransparentGetters ==
    \A u \in UIds :
        /\ UDescriptor(u) = CellDescriptor(PlainAt(u))
        /\ UBitLen(u) = CellBitLen[PlainAt(u)]
        /\ \A level \in Levels :
              /\ UHash(u, level) = CellHashAt(PlainAt(u), level)
              /\ UDepth(u, level) = CellDepthAt(PlainAt(u), level)

C7_InsertContainsAtomic ==
    /\ [](Cardinality({t \in Threads : thr[t].pc = "store"}) <= 1)
    /\ [](\A t \in Threads : thr[t].pc = "store" => mutex = t)
    /\ [](\A h \in Hashes :
             /\ visited[h].present <=> (\E ctx \in Modes : <<h, ctx>> \in inserts)
             /\ visited[h].include <=> (<<h, mode>> \in inserts))
    /\ [][calls' # calls /\ thr' = thr /\ last'.op = "contains" =>
             /\ \A t \in Threads : thr[t].pc # "store"
             /\ last'.ret = (<<ReprHash(last'.i), mode>> \in inserts)]_vars

C7_Witness ==
    \E t1 \in Threads, t2 \in Threads :
        /\ thr[t1].pc = "store"
        /\ thr[t2].pc = "lock"
        /\ ReprHash(thr[t1].c) = ReprHash(thr[t2].c)
        /\ thr[t1].ctx # thr[t2].ctx
        /\ mode = "OnDataAccess"

C9_SubtreeSet ==
    /\ [](tree = "subtrees" =>
            \A h \in Hashes : ContainsSubtree(h) <=> (<<"subtree", h>> \in accessed))
    /\ [][last'.op = "add_subtree" =>
            /\ last'.ret <=> (ReprHash(last'.i) \notin subtrees)
            /\ subtrees' = subtrees \cup {ReprHash(last'.i)}
            /\ ~last'.ret => subtrees' = subtrees]_vars

C9_Witness ==
    /\ tree = "subtrees"
    /\ last.op = "add_subtree"
    /\ ~last.ret
    /\ ContainsSubtree(ReprHash(last.i))
    /\ \E h \in Hashes : ~ContainsSubtree(h)

\* C10: a destructive call on a usage cell whose wrapped handle is shared
\* changes no reference and hands nothing out: take_first_child and
\* take_next_child return None, replace_first_child returns Err with the parent
\* it was given; references change only under a uniquely owned handle
C10_DestructiveOnlyWhenUnique ==
    [][last'.op \in {"take_first_child", "take_next_child", "replace_first_child"} =>
          (StrongCount(ucells[last'.u].cell) # 1 =>
              /\ refs' = refs
              /\ held' = held
              /\ last'.op \in {"take_first_child", "take_next_child"} => last'.ret = 0
              /\ last'.op = "replace_first_child" =>
                     last'.ret = [ok |-> FALSE, cell |-> last'.i])]_vars

C10_Witness ==
    /\ last.op = "replace_first_child"
    /\ ~last.ret.ok
    /\ last.ret.cell = last.i
    /\ StrongCount(ucells[last.u].cell) > 1
    /\ CellTakeFirstChild(ucells[last.u].cell) # 0
    /\ \E c \in Cells : refs[c] # InitRefs[c] /\ StrongCount(c) = 1

\* the views stacked on the cell behind handle h
RECURSIVE WrapDepth(_)
WrapDepth(h) == IF heap[h].kind = "Virtual" THEN 1 + WrapDepth(heap[h].inner) ELSE 0

MaskOf(h) == LevelMaskOf(DescriptorOf(heap, h).d1)

\* C11: virtualize of a cell whose level mask is empty returns the handle it
\* was given and allocates nothing, so it is the identity on level-0 cells,
\* also when it is applied again to its own result
C11_VirtualizeLevelZeroIdentity ==
    /\ [](reg.op = "virtualize" /\ MaskOf(reg.cell) = 0 =>
             /\ reg.ret = reg.cell
             /\ MaskOf(reg.ret) = 0)
    /\ [][reg'.op = "virtualize" /\ Len(heap') > Len(heap) =>
             LevelMaskOf(DescriptorOf(heap, reg'.cell).d1) # 0]_vars

C11_Witness ==
    /\ reg.op = "virtualize"
    /\ reg.ret = reg.cell
    /\ heap[reg.cell].kind = "Ordinary"
    /\ heap[reg.cell].references # << >>

\* C12: virtualize of a cell whose level mask is not empty returns a new view
\* of it: the mask of the view is the mask of the cell shifted right by one,
\* its hash(i) and depth(i) are hash(i + 1) and depth(i + 1) of the cell, its
\* level is one less; a level-3 cell gets views of level 2, 1 and 0 and no
\* more, so no cell carries more than three views
C12_VirtualizeShiftsLevels ==
    /\ \A h \in Handles :
          heap[h].kind = "Virtual" =>
              /\ MaskOf(heap[h].inner) # 0
              /\ MaskOf(h) = MaskOf(heap[h].inner) \div 2
              /\ \A i \in 0 .. 2 :
                    /\ HashOf(h, i) = HashOf(heap[h].inner, i + 1)
                    /\ DepthOf(h, i) = DepthOf(heap[h].inner, i + 1)
    /\ \A h \in Handles : WrapDepth(h) <= 3
    /\ reg.op = "virtualize" /\ MaskOf(reg.cell) # 0 =>
          /\ reg.ret # reg.cell
          /\ heap[reg.ret].kind = "Virtual"
          /\ heap[reg.ret].inner = reg.cell
          /\ MaskLevel(MaskOf(reg.ret)) = MaskLevel(MaskOf(reg.cell)) - 1

C12_Witness ==
    /\ reg.op = "virtualize"
    /\ reg.ret = reg.cell
    /\ WrapDepth(reg.cell) = 3
    /\ MaskOf(reg.cell) = 0
    /\ HashOf(reg.cell, 0) = HashOf(heap[heap[heap[reg.cell].inner].inner].inner, 3)

\* Cell::eq of a usage cell and a plain cell, and of two plain cells: the
\* representation hashes compared
UsageEq(u, c) == UHash(u, 3) = CellHashAt(c, 3)

PlainEq(a, b) == CellHashAt(a, 3) = CellHashAt(b, 3)

\* C13: two handles are equal iff their representation hashes are: a handle
\* equals itself and its clones, the independently built cells 3 and 4 of the
\* same content are equal, cells of different content are not, and the usage
\* cell track returns equals the cell it was given
C13_EqualIffReprHash ==
    /\ \A a \in Cells : \A b \in Cells : PlainEq(a, b) <=> ReprHash(a) = ReprHash(b)
    /\ PlainEq(3, 4) /\ ~PlainEq(2, 3)
    /\ \A u \in UIds : \A c \in Cells :
          UsageEq(u, c) <=> ReprHash(PlainAt(u)) = ReprHash(c)
    /\ last.op = "track" => UsageEq(last.ret, last.ret[1])

C13_Witness ==
    /\ last.op = "track"
    /\ last.ret[1] = 4
    /\ UsageEq(last.ret, 3)
    /\ ~UsageEq(last.ret, 2)

RoundTrip(type) ==
    (obj.type = type /\ reg.op = "load") =>
        reg.ret.ok /\ reg.ret.value = obj.value

\* C15: a ConsensusConfig stored and loaded again is the value stored, its
\* new_catchain_ids and its round_candidates included
C15_ConsensusConfigRoundTrip == RoundTrip("ConsensusConfig")

\* C16: a ValidatorDescription stored and loaded again is the value stored,
\* its public_key, weight, adnl_addr and mc_seqno_since the same, in each of
\* the three tag forms
C16_ValidatorDescriptionRoundTrip == RoundTrip("ValidatorDescription")

\* C17: a ValidatorSet that Store accepted is loaded from the stored cell, and
\* the value loaded is the value stored
C17_ValidatorSetRoundTrip == RoundTrip("ValidatorSet")

\* the 4-bit prefix of the cell parsed
TagPrefix == Val(TakeBits(reg.cell, 4))

\* C18: a TxInfo stored and loaded again is the value stored, of the same
\* variant, a tick-tock info with its kind and its aborted and destroyed flags;
\* a cell is parsed as Ordinary only after the 4-bit tag 0000, as TickTock only
\* after the 3-bit tag 001, and after every other tag prefix it is rejected
\* with InvalidTag
C18_TxInfoRoundTripAndTags ==
    /\ RoundTrip("TxInfo")
    /\ (obj.type = "TxInfo" /\ reg.op = "store") =>
           TagPrefix = (IF obj.value.variant = "Ordinary" THEN 0
                        ELSE IF obj.value.info.kind = "Tick" THEN 2 ELSE 3)
    /\ (obj.type = "TxInfoCell" /\ reg.op = "parse") =>
           /\ reg.ret.ok => \/ TagPrefix = 0 /\ reg.ret.value.variant = "Ordinary"
                            \/ /\ TagPrefix \in {2, 3}
                               /\ reg.ret.value.variant = "TickTock"
                               /\ reg.ret.value.info.kind = (IF TagPrefix = 2 THEN "Tick" ELSE "Tock")
           /\ TagPrefix \notin {0, 2, 3} <=> (~reg.ret.ok /\ reg.ret.err = "InvalidTag")

\* a tock info stored aborted and not destroyed came back from the load
C18_Witness ==
    /\ obj.type = "TxInfo"
    /\ obj.value.variant = "TickTock"
    /\ reg.op = "load"
    /\ reg.ret.ok
    /\ reg.ret.value.variant = "TickTock"
    /\ reg.ret.value.info.aborted
    /\ ~reg.ret.value.info.destroyed
    /\ reg.ret.value.info.kind = "Tock"

\* the load of the cell read it to its end: nothing is left of the cell and
\* nothing of the cell of its messages
ReadToEnd(cell) ==
    /\ TransactionLoadFrom(cell).rest = NoBits
    /\ MessagesLoadFrom(Head(cell.refs)).rest = NoBits

\* C19 as stated: every cell loaded as a Transaction is the cell that storing
\* the loaded value gives
C19_RestoreEqualsInput ==
    (obj.type = "TransactionCell" /\ reg.op = "restore") => reg.cell = obj.value

\* C19: a cell loaded as a Transaction is the cell that storing the loaded value
\* gives exactly when the load read the cell and the cell of its messages to
\* the end
C19_RestoreEqualsInputReadToEnd ==
    (obj.type = "TransactionCell" /\ reg.op = "restore") =>
        (reg.cell = obj.value <=> ReadToEnd(obj.value))

\* a cell with a message in and messages out was loaded and stored again
C19_Witness ==
    /\ obj.type = "TransactionCell"
    /\ reg.op = "restore"
    /\ ReadToEnd(obj.value)
    /\ reg.ret.value.in_msg.some
    /\ Len(DictEntries(reg.ret.value.out_msgs)) = MaxOutMsgs
    /\ reg.cell = obj.value

\* the entries of out_msgs that iter_out_msgs walks: all of them when every one
\* is a message, and those up to the first that is not
RECURSIVE Walked(_)
Walked(entries) ==
    IF entries = << >> THEN 0
    ELSE IF ~OutMsgItems(<<Head(entries)>>)[1].ok THEN 1
    ELSE 1 + Walked(Tail(entries))

IsMsg(i) ==
    LET entries == DictEntries(obj.value.out_msgs)
    IN  entries[i] = OutMsgEntry(i, "msg")

\* C21: iter_out_msgs yields the messages by increasing key; at the first entry
\* whose node, reference or message cannot be read it yields that error, once,
\* and every call of next() after an error or after the end returns None
C21_IterStopsAfterError ==
    (obj.type = "IterTransaction" /\ reg.op = "next") =>
        LET y == reg.ret.yielded
            n == Len(DictEntries(obj.value.out_msgs))
        IN  \A i \in 1 .. Len(y) :
                /\ (y[i].some /\ y[i].value.ok) =>
                       /\ y[i].value.value = 10 + i
                       /\ \A k \in 1 .. i : IsMsg(k)
                /\ (y[i].some /\ ~y[i].value.ok) =>
                       /\ i <= n
                       /\ ~IsMsg(i)
                       /\ \A k \in 1 .. i - 1 : IsMsg(k)
                /\ ~y[i].some => (i > n \/ \E k \in 1 .. i - 1 : ~IsMsg(k))
                /\ (~y[i].some \/ ~y[i].value.ok) =>
                       \A j \in i + 1 .. Len(y) : ~y[j].some

\* the first entry was no message and a message came after it: the error was
\* yielded and the calls after it returned None
C21_Witness ==
    /\ obj.type = "IterTransaction"
    /\ reg.op = "next"
    /\ Len(DictEntries(obj.value.out_msgs)) >= 2
    /\ ~IsMsg(1)
    /\ IsMsg(2)
    /\ Len(reg.ret.yielded) >= 3
    /\ reg.ret.yielded[1].some
    /\ ~reg.ret.yielded[1].value.ok
    /\ ~reg.ret.yielded[2].some

\* the errors load_from returns
TypedErrors == {"CellUnderflow", "InvalidTag", "InvalidData"}

\* the sum of the weights of a list, in order, does not fit a u64
RECURSIVE WeightsOverflow(_, _)
WeightsOverflow(list, sum) ==
    /\ list # << >>
    /\ \/ OverflowsU64(sum, Head(list).weight)
       \/ WeightsOverflow(Tail(list), WrappingAddU64(sum, Head(list).weight))

\* C22: the load of a ValidatorSet from any cell returns a value or a typed
\* error and never panics, and the sum of the weights of a set loaded did not
\* overflow a u64
C22_ValidatorSetLoadNeverPanics ==
    (obj.type = "ValidatorSetCell" /\ reg.op = "parse") =>
        /\ ~reg.ret.ok => reg.ret.err \in TypedErrors
        /\ reg.ret.ok => ~WeightsOverflow(reg.ret.value.list, U64(0))

C24_OrdinaryBucket ==
    reg.op = "make_ordinary_cell" =>
        LET n == obj.value
            buckets == {b \in {8, 16, 32, 64, 128} : b >= n}
            target == IF n = 0 THEN 0
                      ELSE CHOOSE b \in buckets : \A c \in buckets : b <= c
        IN  /\ reg.ret.target_data_len = target
            /\ reg.ret.index \in 0 .. 8
            /\ n = 0 => reg.ret.index = 0
            /\ n # 0 => 2 ^ (reg.ret.index - 1) = target
            /\ reg.ret.vtable = target
            /\ n <= reg.ret.vtable

\* a payload of 9 bytes went to the bucket of 16
C24_Witness ==
    /\ reg.op = "make_ordinary_cell"
    /\ obj.value = 9
    /\ reg.ret.target_data_len = 16
    /\ reg.ret.index = 5

\* C25: while the tree lives, no call removes an entry of the visited map or
\* clears its include flag: contains(h), once true, stays true
C25_ContainsStaysTrue ==
    [][TreeAlive' =>
          \A h \in Hashes :
              /\ visited[h].present => visited'[h].present
              /\ visited[h].include => visited'[h].include
              /\ Contains(h) => ContainsIn(visited', h)]_vars

\* a cell whose data was read is tracked once more in the mode OnDataAccess,
\* after the conversion and an add_subtree, and the tree still contains it
C25_Witness ==
    /\ mode = "OnDataAccess"
    /\ tree = "subtrees"
    /\ subtrees # {}
    /\ last.op = "track"
    /\ <<ReprHash(last.u[1]), "OnDataAccess">> \in inserts
    /\ Contains(ReprHash(last.u[1]))

\* C26: with_subtrees keeps the visited map and starts with no subtree, the
\* usage cells made before it record into the converted tree, add_subtree
\* leaves contains_direct alone, and track, data and the resolution of a
\* reference leave contains_subtree alone
C26_WithSubtreesKeepsState ==
    [][/\ (tree = "plain" /\ tree' = "subtrees") =>
              /\ \A h \in Hashes : ContainsIn(visited', h) = Contains(h)
              /\ visited' = visited
              /\ subtrees' = {}
       /\ (tree = "subtrees" /\ last'.op = "add_subtree") => visited' = visited
       /\ last'.op \in {"track", "data", "reference"} => subtrees' = subtrees
       /\ (tree = "subtrees" /\ last'.op = "data" /\ last'.u \in obj) =>
              LET h == ReprHash(ucells[last'.u].cell)
              IN  /\ visited'[h].present
                  /\ visited'[h].include = (visited[h].include \/ mode = "OnDataAccess")
       /\ (tree = "subtrees" /\ last'.op = "reference" /\ last'.fresh /\ last'.u \in obj) =>
              visited'[ReprHash(ucells'[last'.ret].cell)].present]_vars

\* a usage cell made before the conversion read its data after it, in a tree
\* that holds a subtree, and the tree contains its cell
C26_Witness ==
    /\ tree = "subtrees"
    /\ subtrees # {}
    /\ mode = "OnDataAccess"
    /\ last.op = "data"
    /\ last.u \in obj
    /\ Contains(ReprHash(ucells[last.u].cell))

\* C27: a WorkchainDescription that Load returned is valid, and storing it does
\* not fail with InvalidData
C27_LoadedWorkchainIsValid ==
    /\ (obj.type = "WorkchainCell" /\ reg.op = "parse" /\ reg.ret.ok) =>
           /\ reg.ret.value.min_split <= reg.ret.value.max_split
           /\ reg.ret.value.max_split <= 60
    /\ (obj.type = "WorkchainCell" /\ reg.op = "restore") => reg.ret.ok

\* C28: the store of a WorkchainDescription that is not valid returns
\* InvalidData, and the builder has the bits and the references it had before
C28_InvalidStoreWritesNothing ==
    (/\ obj.type = "WorkchainBuilder"
     /\ reg.op = "store_into"
     /\ \/ obj.value.value.min_split > obj.value.value.max_split
        \/ obj.value.value.max_split > 60
        \/ ~WorkchainFormatIsValid(obj.value.value.format)) =>
        /\ ~reg.ret.ok
        /\ reg.ret.err = "InvalidData"
        /\ reg.cell = obj.value.builder

\* a description with its splits out of order was stored into a builder in use
C28_Witness ==
    /\ obj.type = "WorkchainBuilder"
    /\ reg.op = "store_into"
    /\ obj.value.value.min_split > obj.value.value.max_split
    /\ obj.value.builder # NoBits
    /\ ~reg.ret.ok
    /\ reg.cell = obj.value.builder

\* the flat prefix that the result of a load holds: the last one of the cell
LastFlat(flats) == IF flats = << >> THEN <<0, 0>> ELSE flats[Len(flats)]

\* C29: the load of GasLimitsPrices terminates: an iteration that stays in the
\* loop has consumed the 8 bits of a tag and more, the tag 0xd1 repeats, the load
\* ends with a value on the tags 0xdd and 0xde, with InvalidTag on any other tag
\* but 0xd1, and with the error of the slice otherwise
C29_GasLoadTerminates ==
    /\ [][(reg.op = "gas_loop" /\ reg'.op = "gas_loop") =>
              /\ reg'.ret.tag = TagFlatPfx
              /\ Len(reg'.cell.bits) + 8 <= Len(reg.cell.bits)]_vars
    /\ [](reg.op = "gas_done" =>
              \/ /\ reg.ret.ok
                 /\ reg.ret.tag \in {TagBase, TagExt}
                 /\ reg.ret.iterations = Len(obj.value.flats) + 1
                 /\ reg.ret.value.flat_gas_limit = U64(LastFlat(obj.value.flats)[1])
                 /\ reg.ret.value.flat_gas_price = U64(LastFlat(obj.value.flats)[2])
                 /\ reg.ret.value.delete_due_limit = U64(IF reg.ret.tag = TagExt THEN 7 ELSE 6)
              \/ /\ ~reg.ret.ok
                 /\ reg.ret.err = "InvalidTag"
                 /\ reg.ret.tag \notin {TagFlatPfx, TagBase, TagExt, -1}
              \/ /\ ~reg.ret.ok
                 /\ reg.ret.err = "CellUnderflow")
    /\ (reg.op = "gas_loop") ~> (reg.op = "gas_done")

\* a load that read the tag 0xd1 twice and ended with a value
C29_Witness ==
    /\ reg.op = "gas_done"
    /\ reg.ret.ok
    /\ reg.ret.iterations > 2
    /\ Len(obj.value.flats) > 1

\* C30: a vector has as many items as were pushed and at most N, its first len
\* slots and no other hold an item, as_ref() is the items pushed in their order,
\* a clone has the length and the items of its source, and the vector drops
\* each item once when it is dropped and never after into_inner()
C30_ArrayVecInvariants ==
    /\ \A i \in 1 .. Len(obj.value) :
           LET v == obj.value[i]
           IN  /\ v.len = Len(v.pushed)
               /\ v.len <= N
               /\ \A s \in 1 .. N : (v.inner[s] # Uninit) <=> (s <= v.len)
               /\ AsRef(v) = v.pushed
               /\ \A s \in 1 .. N :
                      v.drops[s] = IF v.owner = "dropped" /\ s <= v.len THEN 1 ELSE 0
    /\ reg.op = "clone" =>
           /\ obj.value[Len(obj.value)].len = obj.value[reg.vec].len
           /\ AsRef(obj.value[Len(obj.value)]) = AsRef(obj.value[reg.vec])
           /\ obj.value[Len(obj.value)].owner = "vec"

\* a full vector was cloned, the clone was dropped and the items of the source
\* went to the caller of into_inner()
C30_Witness ==
    /\ Len(obj.value) > 1
    /\ obj.value[1].len = N
    /\ obj.value[1].owner = "caller"
    /\ obj.value[2].len = N
    /\ obj.value[2].owner = "dropped"
    /\ obj.value[2].inner[1] # obj.value[2].inner[2]

====
